---- MODULE Spec2Model ----
(***************************************************************************)
(* A model of the code generators of devito's back end:                    *)
(*   - the MPI halo exchange builder (devito/mpi/routines.py) and the      *)
(*     run-time behaviour of the routines it generates,                    *)
(*   - the elemental-function outlining pass (devito/dle/backends/basic.py)*)
(*     and the state its pipeline accumulates,                             *)
(*   - the device-offloading target (devito/targets/gpu.py),               *)
(*   - the memory scope of Arrays and the symbol cache (devito/types.py).  *)
(* Each subsystem has its own specification (SpecMpi, LiveSpecMpi,         *)
(* SpecGrid, SpecMake, SpecEfuncs, SpecRerun, SpecMerge, SpecOmp,          *)
(* SpecPipe, SpecData, SpecArray, SpecCache); the variables of the other   *)
(* subsystems stay idle.                                                   *)
(***************************************************************************)
EXTENDS Integers, Sequences, FiniteSets, TLC

VARIABLES
    \* ---- run time of the generated halo exchange (one haloupdate call per process)
    topo,       \* the neighborhood: [n |-> processes along dimension 1, periodic |-> BOOLEAN,
                \*   ny |-> processes along dimension 2 (0: the array has one dimension)]
    rmask,      \* the mask the executed haloupdate was built for
    eager,      \* TRUE: MPI_Isend completes at once (buffered); FALSE: rendezvous
    pc,         \* pc[p] = [call |-> index into the haloupdate body, ip |-> index into the sendrecv body]
    bufg,       \* bufg[p]: the send buffer of the running sendrecv
    bufs,       \* bufs[p]: the receive buffer of the running sendrecv
    halo,       \* halo[p][<<d, side>>]: content of the halo region of p
    chan,       \* chan[<<s, q>>]: messages sent by s to q, not yet received, in order
    reqs,       \* the posted requests that are not complete
    posted,     \* history: every operation executed, with its peer
    \* ---- HaloExchangeBuilder.make
    spots,      \* the halo spots given to make (one Function each)
    hsi,        \* index of the next halo spot to process
    generated,  \* the OrderedDict `generated`: a sequence of [key, callables]
    calls,      \* the haloupdate Calls built so far
    extra,      \* the local variable `extra` of make
    threaded,   \* HaloExchangeBuilder._threaded
    mkpc,       \* "loop": in the loop over the halo spots; "done": make has returned
    mkresult,   \* the list of Callables make returned
    mfirst,     \* what an earlier call of make on the same halo spots returned (NoRun: none)
    \* ---- BasicRewriter._create_efuncs
    nodes,      \* the input tree: [n |-> number of Iterations, par |-> parent of each (0: none),
                \*                  it |-> tag (0: None), is_Elementizable and bounds offset of each]
    ci,         \* index of the next iteration tree of retrieve_iteration_tree(nodes, 'superset')
    functions,  \* the OrderedDict `functions`: a sequence of Callables
    mapper,     \* the dict `mapper`: for each Iteration the Call that replaces it (NoCall: none)
    requested,  \* history: every Callable constructed for functions.setdefault
    epc,        \* "loop": in the loop over the trees; "done": the pass has returned
    processed,  \* the tree returned: what stands at the position of each Iteration
    efuncs,     \* the 'efuncs' returned: functions.values()
    efirst,     \* what an earlier run of the pass on the same tree returned (NoRun: none)
    \* ---- OffloadingOmpizer: make_simd, then _make_partree on one list of candidates
    gtree,      \* the tree given to make_simd: [n, par, it |-> VECTOR property and
                \*   eligibility for collapsing of each Iteration]
    ncores,     \* the estimated number of cores
    work,       \* the estimated work per collapsed iteration
    simd,       \* simd[i]: Iteration i of the tree make_simd returned is vectorizable
    candidates, \* the candidates given to _make_partree: nested Iterations, outermost first
    partree,    \* what _make_partree built: pragmas and COLLAPSED property of each
                \*   Iteration, and the list `collapsed`
    opc,        \* "simd": before make_simd; "par": before _make_partree; "done"
    \* ---- DeviceOffloadingTarget._pipeline
    tparams,    \* self.params: [mpi |-> "False" or a mode, openmp |-> BOOLEAN]
    ppc,        \* the statement of _pipeline to execute next (1..7), 8: returned
    trace,      \* history: the passes called so far, in order
    graph,      \* the passes that have transformed the graph, in order
    \* ---- OffloadingDataManager
    storage,    \* storage._high_bw_mem: a sequence of [obj, decl, alloc, free]
    regs,       \* history: the objects the data manager was asked to place, in order
    \* ---- types.Array: one Array object
    arr,        \* the memory scope flags [external, onstack, onheap] of the object
    apc,        \* "new": not constructed; "live"; "error": the last call raised
    alast,      \* history: the last call, [op, external, onstack, onheap]
    ancalls,    \* the number of calls that have returned or raised
    \* ---- the state of the rewrite pipeline (BasicRewriter._pipeline)
    pstate,     \* the accumulated state: [includes |-> set of headers,
                \*   efuncs |-> the registry of generated Callables, in insertion order]
    mlog,       \* history: the passes whose increment was merged, in order
    mgpc,       \* "run"; "error": a merge found two different Callables of one name
    \* ---- the symbol cache (types._SymbolCache) and the objects of the cached classes
    sym,        \* sym[c]: the class c made by _symbol_type and its instances (NoSym: none yet)
    spc         \* "run"; "error": a re-instantiation raised

mpivars == <<topo, rmask, eager, pc, bufg, bufs, halo, chan, reqs, posted>>
makevars == <<spots, hsi, generated, calls, extra, threaded, mkpc, mkresult, mfirst>>
efvars == <<nodes, ci, functions, mapper, requested, epc, processed, efuncs, efirst>>
ompvars == <<gtree, ncores, work, simd, candidates, partree, opc>>
\* the device-offloading target (devito/targets/gpu.py) and the types it maps
pipevars == <<tparams, ppc, trace, graph>>
datavars == <<storage, regs>>
arrvars == <<arr, apc, alast, ancalls>>
tgtvars == <<ompvars, pipevars, datavars, arrvars>>
mergevars == <<pstate, mlog, mgpc>>
cachevars == <<sym, spc>>
vars == <<mpivars, makevars, efvars, tgtvars, mergevars, cachevars>>
\* the variables a subsystem leaves alone
notMpi == <<makevars, efvars, tgtvars, mergevars, cachevars>>
notMake == <<mpivars, efvars, tgtvars, mergevars, cachevars>>
notEfuncs == <<mpivars, makevars, tgtvars, mergevars, cachevars>>
notTarget == <<mpivars, makevars, efvars, mergevars, cachevars>>
notMerge == <<mpivars, makevars, efvars, tgtvars, cachevars>>
notCache == <<mpivars, makevars, efvars, tgtvars, mergevars>>
notOmp == <<notTarget, pipevars, datavars, arrvars>>
notPipe == <<notTarget, datavars, arrvars>>
notData == <<notTarget, ompvars, pipevars, arrvars>>
notArray == <<notTarget, ompvars, pipevars, datavars>>

\* no earlier run
NoRun == [done |-> FALSE, tree |-> <<>>, callables |-> <<>>]

(***************************************************************************)
(* Bounds                                                                  *)
(***************************************************************************)
MaxProcs == 3       \* processes of the neighborhood: 1..MaxProcs
LiveProcs == 2      \* processes of a neighborhood whose progress is checked: 1..LiveProcs
MaxSpots == 2       \* halo spots given to one make call: 1..MaxSpots
MaxNodes == 3       \* Iterations of the tree given to the outlining pass: 1..MaxNodes
RerunNodes == 2     \* Iterations of a tree the outlining pass is run on twice
RerunSpots == 1     \* halo spots of a make call that is repeated
OmpNodes == 3       \* Iterations of the tree given to the device ompizer: 1..OmpNodes
MaxCores == 2       \* estimated number of cores: 1..MaxCores
MaxWork == 2        \* estimated work per collapsed iteration: 1..MaxWork
PipeNodes == 2      \* Iterations of the graph given to the device pipeline: 1..PipeNodes
MaxObjs == 2        \* Functions, and Arrays, known to the data manager: 1..MaxObjs of each
MaxRegs == 4        \* requests to place an object: 0..MaxRegs
MaxCalls == 4       \* calls on one Array (the constructor, then update): 0..MaxCalls
MaxSyms == 2        \* classes made by _symbol_type: 1..MaxSyms
MaxCopies == 2      \* live re-instantiated objects of one class: 0..MaxCopies

(***************************************************************************)
(* Shared vocabulary                                                       *)
(***************************************************************************)
LEFT == "left"
RIGHT == "right"
OWNED == "owned"
HALO == "halo"
NOPAD == "nopad"
Sides == <<LEFT, RIGHT>>

\* Macro('MPI_PROC_NULL'): the null-rank sentinel, no process has this rank
ProcNull == -1
\* Integer(13): the one tag of every halo message
MsgTag == 13

RECURSIVE SeqConcat(_)
SeqConcat(ss) == IF ss = <<>> THEN <<>> ELSE Head(ss) \o SeqConcat(Tail(ss))

SeqMap(Op(_), s) == [i \in 1..Len(s) |-> Op(s[i])]

SeqRange(s) == {s[i] : i \in 1..Len(s)}

(***************************************************************************)
(* The body of the sendrecv Callable (BasicHaloExchangeBuilder.            *)
(* _make_sendrecv): a list of operations, each with the condition that     *)
(* wraps it ("none": not wrapped in a Conditional).                        *)
(***************************************************************************)
Op(o, g) == [op |-> o, guard |-> g]

\* mutant: the send is posted and waited for before the receive is posted
SendRecvBody_SendFirst ==
    << Op("gather", "torank"), Op("MPI_Isend", "none"), Op("MPI_Wait_send", "none"),
       Op("MPI_Irecv", "none"), Op("MPI_Wait_recv", "none"), Op("scatter", "fromrank") >>

\* mutant: the receive request is never waited for
SendRecvBody_NoWaitRecv ==
    << Op("MPI_Irecv", "none"), Op("gather", "torank"), Op("MPI_Isend", "none"),
       Op("MPI_Wait_send", "none"), Op("scatter", "fromrank") >>

\* mutant: the scatter is not guarded
SendRecvBody_ScatterAlways ==
    << Op("MPI_Irecv", "none"), Op("gather", "torank"), Op("MPI_Isend", "none"),
       Op("MPI_Wait_send", "none"), Op("MPI_Wait_recv", "none"), Op("scatter", "none") >>

\* mutant: the send is guarded like the gather
SendRecvBody_SendGuarded ==
    << Op("MPI_Irecv", "none"), Op("gather", "torank"), Op("MPI_Isend", "torank"),
       Op("MPI_Wait_send", "none"), Op("MPI_Wait_recv", "none"), Op("scatter", "fromrank") >>

\* iet = List(body=[recv, gather, send, waitsend, waitrecv, scatter])
SendRecvBody ==
    << Op("MPI_Irecv", "none"), Op("gather", "torank"), Op("MPI_Isend", "none"),
       Op("MPI_Wait_send", "none"), Op("MPI_Wait_recv", "none"), Op("scatter", "fromrank") >>

(***************************************************************************)
(* The body of a haloupdate Callable (_make_haloupdate): for each non-fixed*)
(* dimension, in the order of f.dimensions, one sendrecv call if           *)
(* mask[(d, LEFT)] and then one if mask[(d, RIGHT)].                       *)
(*   dims: the sequence f.dimensions; fixed: the set of fixed dimensions;  *)
(*   mask: the set of (d, side) whose flag is true.                        *)
(***************************************************************************)
\* Exchange with the two peers exchanged: receiving from the side it sends to
Exchange_SwappedPeers(d, flag) ==
    IF flag = LEFT
    THEN [dim |-> d, flag |-> LEFT,
          gather |-> <<d, LEFT, OWNED>>, scatter |-> <<d, RIGHT, HALO>>,
          fromrank |-> LEFT, torank |-> RIGHT]
    ELSE [dim |-> d, flag |-> RIGHT,
          gather |-> <<d, RIGHT, OWNED>>, scatter |-> <<d, LEFT, HALO>>,
          fromrank |-> RIGHT, torank |-> LEFT]

Exchange(d, flag) ==
    IF flag = LEFT
    THEN \* Sending to left, receiving from right
         [dim |-> d, flag |-> LEFT,
          gather |-> <<d, LEFT, OWNED>>, scatter |-> <<d, RIGHT, HALO>>,
          fromrank |-> RIGHT, torank |-> LEFT]
    ELSE \* Sending to right, receiving from left
         [dim |-> d, flag |-> RIGHT,
          gather |-> <<d, RIGHT, OWNED>>, scatter |-> <<d, LEFT, HALO>>,
          fromrank |-> LEFT, torank |-> RIGHT]

\* ExchangesOfDim with the exchange of the right flag emitted first
ExchangesOfDim_RightFirst(d, fixed, mask) ==
    IF d \in fixed THEN <<>>
    ELSE (IF <<d, RIGHT>> \in mask THEN <<Exchange(d, RIGHT)>> ELSE <<>>)
         \o (IF <<d, LEFT>> \in mask THEN <<Exchange(d, LEFT)>> ELSE <<>>)

ExchangesOfDim(d, fixed, mask) ==
    IF d \in fixed THEN <<>>
    ELSE (IF <<d, LEFT>> \in mask THEN <<Exchange(d, LEFT)>> ELSE <<>>)
         \o (IF <<d, RIGHT>> \in mask THEN <<Exchange(d, RIGHT)>> ELSE <<>>)

HaloUpdateBody(dims, fixed, mask) ==
    SeqConcat([i \in 1..Len(dims) |-> ExchangesOfDim(dims[i], fixed, mask)])

(***************************************************************************)
(* Run time of the generated routines.  Every process of the neighborhood  *)
(* executes the same haloupdate for an array with one or two (non-fixed)   *)
(* dimensions, along which the processes are arranged: along a dimension a *)
(* line with MPI_PROC_NULL at both ends, or a periodic ring (with 2        *)
(* processes each is the left and the right neighbor of the other, with 1  *)
(* process it is its own neighbor).  The process at (x, y) has rank        *)
(* x + n * y.                                                              *)
(***************************************************************************)
RunDims == IF topo.ny = 0 THEN <<1>> ELSE <<1, 2>>

Procs == 0..(topo.n * (IF topo.ny = 0 THEN 1 ELSE topo.ny) - 1)

\* the coordinate next to k in direction dir among size processes
Along(k, size, dir) ==
    IF dir = LEFT
    THEN (IF k > 0 THEN k - 1 ELSE IF topo.periodic THEN size - 1 ELSE ProcNull)
    ELSE (IF k < size - 1 THEN k + 1 ELSE IF topo.periodic THEN 0 ELSE ProcNull)

\* FieldFromPointer(name, nb): the rank the neighborhood holds for (d, dir)
Neighbor(p, d, dir) ==
    LET x == p % topo.n
        y == p \div topo.n
        c == IF d = 1 THEN Along(x, topo.n, dir) ELSE Along(y, topo.ny, dir)
    IN  IF c = ProcNull THEN ProcNull
        ELSE IF d = 1 THEN c + topo.n * y ELSE x + topo.n * c

RunBody == HaloUpdateBody(RunDims, {}, rmask)

Returned(p) == pc[p].call > Len(RunBody)
AllReturned == \A p \in Procs : Returned(p)
InBody(p) == ~Returned(p) /\ pc[p].ip <= Len(SendRecvBody)
CurCall(p) == RunBody[pc[p].call]
CurOp(p) == SendRecvBody[pc[p].ip]
FromRank(p) == Neighbor(p, CurCall(p).dim, CurCall(p).fromrank)
ToRank(p) == Neighbor(p, CurCall(p).dim, CurCall(p).torank)

\* Conditional(CondNe(torank, Macro('MPI_PROC_NULL')), ...) and the like
GuardHolds(p) ==
    CASE CurOp(p).guard = "torank" -> ToRank(p) # ProcNull
      [] CurOp(p).guard = "fromrank" -> FromRank(p) # ProcNull
      [] OTHER -> TRUE

At(p, o) == InBody(p) /\ CurOp(p).op = o

Advance(p) == pc' = [pc EXCEPT ![p].ip = @ + 1]

Data(owner, d, side) == [owner |-> owner, dim |-> d, side |-> side]
\* content of a buffer that was allocated and never written
Uninit == Data(-2, 0, "none")
\* content of a halo region before the exchange
HaloInit(d, side) == Data(-1, d, side)
\* content of the owned region of p at (d, side)
OwnedData(p, d, side) == Data(p, d, side)

Req(p, k, kind, peer) == [p |-> p, call |-> k, kind |-> kind, peer |-> peer]
Event(p, o, peer) == [p |-> p, call |-> pc[p].call, op |-> o, peer |-> peer]

\* recv = Call('MPI_Irecv', [bufs, count, type, fromrank, 13, comm, rrecv])
PostRecv(p) ==
    /\ At(p, "MPI_Irecv")
    /\ IF GuardHolds(p)
       THEN /\ reqs' = IF FromRank(p) = ProcNull THEN reqs
                       ELSE reqs \cup {Req(p, pc[p].call, "recv", FromRank(p))}
            /\ posted' = posted \cup {Event(p, "MPI_Irecv", FromRank(p))}
       ELSE UNCHANGED <<reqs, posted>>
    /\ Advance(p)
    /\ UNCHANGED <<topo, rmask, eager, bufg, bufs, halo, chan>>

\* gather = Conditional(CondNe(torank, MPI_PROC_NULL), Call('gather%dd', [bufg, ..., f] + ofsg))
Gather(p) ==
    /\ At(p, "gather")
    /\ IF GuardHolds(p)
       THEN /\ bufg' = [bufg EXCEPT ![p] =
                          OwnedData(p, CurCall(p).gather[1], CurCall(p).gather[2])]
            /\ posted' = posted \cup {Event(p, "gather", ToRank(p))}
       ELSE UNCHANGED <<bufg, posted>>
    /\ Advance(p)
    /\ UNCHANGED <<topo, rmask, eager, bufs, halo, chan, reqs>>

\* send = Call('MPI_Isend', [bufg, count, type, torank, 13, comm, rsend])
\* A send to MPI_PROC_NULL completes at once and delivers nothing.
PostSend(p) ==
    /\ At(p, "MPI_Isend")
    /\ IF GuardHolds(p)
       THEN /\ posted' = posted \cup {Event(p, "MPI_Isend", ToRank(p))}
            /\ IF ToRank(p) = ProcNull
               THEN UNCHANGED <<chan, reqs>>
               ELSE /\ chan' = [chan EXCEPT ![<<p, ToRank(p)>>] =
                                   Append(@, [data |-> bufg[p], call |-> pc[p].call,
                                              tag |-> MsgTag, sync |-> ~eager])]
                    /\ reqs' = IF eager THEN reqs
                               ELSE reqs \cup {Req(p, pc[p].call, "send", ToRank(p))}
       ELSE UNCHANGED <<posted, chan, reqs>>
    /\ Advance(p)
    /\ UNCHANGED <<topo, rmask, eager, bufg, bufs, halo>>

\* waitsend = Call('MPI_Wait', [rsend, ssend]): blocks until rsend is complete
WaitSend(p) ==
    /\ At(p, "MPI_Wait_send")
    /\ \A r \in reqs : ~(r.p = p /\ r.call = pc[p].call /\ r.kind = "send")
    /\ posted' = posted \cup {Event(p, "MPI_Wait_send", ToRank(p))}
    /\ Advance(p)
    /\ UNCHANGED <<topo, rmask, eager, bufg, bufs, halo, chan, reqs>>

\* waitrecv = Call('MPI_Wait', [rrecv, srecv]): blocks until rrecv is complete
WaitRecv(p) ==
    /\ At(p, "MPI_Wait_recv")
    /\ \A r \in reqs : ~(r.p = p /\ r.call = pc[p].call /\ r.kind = "recv")
    /\ posted' = posted \cup {Event(p, "MPI_Wait_recv", FromRank(p))}
    /\ Advance(p)
    /\ UNCHANGED <<topo, rmask, eager, bufg, bufs, halo, chan, reqs>>

\* scatter = Conditional(CondNe(fromrank, MPI_PROC_NULL), Call('scatter%dd', [bufs, ..., f] + ofss))
Scatter(p) ==
    /\ At(p, "scatter")
    /\ IF GuardHolds(p)
       THEN /\ halo' = [halo EXCEPT ![p][<<CurCall(p).scatter[1], CurCall(p).scatter[2]>>] =
                          bufs[p]]
            /\ posted' = posted \cup {Event(p, "scatter", FromRank(p))}
       ELSE UNCHANGED <<halo, posted>>
    /\ Advance(p)
    /\ UNCHANGED <<topo, rmask, eager, bufg, bufs, chan, reqs>>

\* some step of the program or of the MPI library is possible
CanProgress ==
    \/ \E p \in Procs :
          \/ InBody(p) /\ CurOp(p).op \notin {"MPI_Wait_send", "MPI_Wait_recv"}
          \/ At(p, "MPI_Wait_send")
               /\ \A r \in reqs : ~(r.p = p /\ r.call = pc[p].call /\ r.kind = "send")
          \/ At(p, "MPI_Wait_recv")
               /\ \A r \in reqs : ~(r.p = p /\ r.call = pc[p].call /\ r.kind = "recv")
          \/ ~Returned(p) /\ pc[p].ip = Len(SendRecvBody) + 1
    \/ \E r \in reqs : r.kind = "recv" /\ chan[<<r.peer, r.p>>] # <<>>

\* the sendrecv Callable returns (its buffers bufg, bufs are freed) and
\* haloupdate goes on to its next Call
Return(p) ==
    /\ ~Returned(p)
    /\ pc[p].ip = Len(SendRecvBody) + 1
    /\ pc' = [pc EXCEPT ![p] = [call |-> @.call + 1, ip |-> 1]]
    /\ bufg' = [bufg EXCEPT ![p] = Uninit]
    /\ bufs' = [bufs EXCEPT ![p] = Uninit]
    /\ UNCHANGED <<topo, rmask, eager, halo, chan, reqs, posted>>

\* The MPI library matches the oldest message s sent to q with the oldest
\* receive q posted for source s (same communicator, same tag): the data
\* lands in the receive buffer, the receive request completes, and so does
\* the send request of a rendezvous send.
OldestRecv(r) ==
    \A r2 \in reqs : (r2.p = r.p /\ r2.kind = "recv" /\ r2.peer = r.peer) => r.call <= r2.call

Match(r) ==
    /\ r \in reqs /\ r.kind = "recv" /\ OldestRecv(r)
    /\ chan[<<r.peer, r.p>>] # <<>>
    /\ LET m == Head(chan[<<r.peer, r.p>>])
       IN /\ chan' = [chan EXCEPT ![<<r.peer, r.p>>] = Tail(@)]
          /\ reqs' = (reqs \ {r}) \ {Req(r.peer, m.call, "send", r.p)}
          /\ bufs' = IF pc[r.p].call = r.call /\ pc[r.p].ip <= Len(SendRecvBody)
                     THEN [bufs EXCEPT ![r.p] = m.data]
                     ELSE bufs
    /\ UNCHANGED <<topo, rmask, eager, pc, bufg, halo, posted>>

Masks == SUBSET {<<RunDims[i], Sides[j]>> : i \in 1..Len(RunDims), j \in 1..Len(Sides)}

\* haloupdate is called by every process of one of the neighborhoods shapes
MpiStart(shapes) ==
    /\ topo \in shapes
    /\ rmask \in Masks
    /\ eager \in BOOLEAN
    /\ pc = [p \in Procs |-> [call |-> 1, ip |-> 1]]
    /\ bufg = [p \in Procs |-> Uninit]
    /\ bufs = [p \in Procs |-> Uninit]
    /\ halo = [p \in Procs |->
                 [x \in {<<RunDims[i], Sides[j]>> : i \in 1..Len(RunDims), j \in 1..Len(Sides)}
                    |-> HaloInit(x[1], x[2])]]
    /\ chan = [x \in Procs \X Procs |-> <<>>]
    /\ reqs = {}
    /\ posted = {}

MpiInit == MpiStart([n : 1..MaxProcs, periodic : BOOLEAN, ny : {0}])

MpiIdle ==
    /\ topo = [n |-> 0, periodic |-> FALSE, ny |-> 0]
    /\ rmask = {}
    /\ eager = FALSE
    /\ pc = <<>> /\ bufg = <<>> /\ bufs = <<>> /\ halo = <<>> /\ chan = <<>>
    /\ reqs = {} /\ posted = {}

NextMpi ==
    \/ \E p \in Procs : PostRecv(p) /\ UNCHANGED notMpi
    \/ \E p \in Procs : Gather(p) /\ UNCHANGED notMpi
    \/ \E p \in Procs : PostSend(p) /\ UNCHANGED notMpi
    \/ \E p \in Procs : WaitSend(p) /\ UNCHANGED notMpi
    \/ \E p \in Procs : WaitRecv(p) /\ UNCHANGED notMpi
    \/ \E p \in Procs : Scatter(p) /\ UNCHANGED notMpi
    \/ \E p \in Procs : Return(p) /\ UNCHANGED notMpi
    \/ \E r \in reqs : Match(r) /\ UNCHANGED notMpi

EfuncsIdle ==
    /\ nodes = [n |-> 0, par |-> <<>>, it |-> <<>>]
    /\ ci = 0 /\ functions = <<>> /\ mapper = <<>> /\ requested = {}
    /\ epc = "idle" /\ processed = <<>> /\ efuncs = <<>> /\ efirst = NoRun

MakeIdle ==
    /\ spots = <<>> /\ hsi = 0 /\ generated = <<>> /\ calls = <<>>
    /\ extra = <<>> /\ threaded = FALSE /\ mkpc = "idle" /\ mkresult = <<>> /\ mfirst = NoRun

OmpIdle ==
    /\ gtree = [n |-> 0, par |-> <<>>, it |-> <<>>]
    /\ ncores = 0 /\ work = 0 /\ simd = <<>> /\ candidates = <<>>
    /\ partree = <<>> /\ opc = "idle"

PipeIdle ==
    /\ tparams = [mpi |-> "False", openmp |-> FALSE]
    /\ ppc = 0 /\ trace = <<>> /\ graph = <<>>

DataIdle == storage = <<>> /\ regs = <<>>

NoFlags == [external |-> FALSE, onstack |-> FALSE, onheap |-> FALSE]
NoCallYet == [op |-> "none", external |-> "absent", onstack |-> "absent", onheap |-> "absent"]
ArrayIdle == arr = NoFlags /\ apc = "idle" /\ alast = NoCallYet /\ ancalls = 0

TargetIdle == OmpIdle /\ PipeIdle /\ DataIdle /\ ArrayIdle

NoState == [includes |-> {}, efuncs |-> <<>>]
MergeIdle == pstate = NoState /\ mlog = <<>> /\ mgpc = "idle"

CacheIdle == sym = <<>> /\ spc = "idle"

InitMpi == MpiInit /\ MakeIdle /\ EfuncsIdle /\ TargetIdle /\ MergeIdle /\ CacheIdle

SpecMpi == InitMpi /\ [][NextMpi]_vars

\* Each process is a running program and the MPI library makes progress:
\* a step that stays possible is eventually taken.
InitLive ==
    /\ MpiStart([n : 1..LiveProcs, periodic : BOOLEAN, ny : {0}])
    /\ MakeIdle /\ EfuncsIdle /\ TargetIdle /\ MergeIdle /\ CacheIdle

LiveSpecMpi ==
    /\ InitLive /\ [][NextMpi]_vars
    /\ WF_vars(NextMpi)

\* C2: in every neighborhood, no state is reachable in which some process has
\* not returned from haloupdate and nothing can happen, and every process
\* eventually returns from haloupdate.
C2_NoDeadlockAllReturn == [](AllReturned \/ CanProgress) /\ <>AllReturned

\* C2 witness: on the 2-process periodic ring, with rendezvous sends and both
\* flags of the mask set, every process has returned from haloupdate.
C2_Witness ==
    /\ topo.n = 2 /\ topo.periodic /\ ~eager
    /\ rmask = {<<1, LEFT>>, <<1, RIGHT>>}
    /\ AllReturned

\* C3: a request that is not complete belongs to the sendrecv call its owner
\* is still executing: once the body of sendrecv is through (and in every
\* later call, and after haloupdate has returned) none of the requests this
\* call posted is outstanding.
C3_ReturnsAfterCompletion ==
    \A r \in reqs : pc[r.p].call = r.call /\ pc[r.p].ip <= Len(SendRecvBody)

\* C3 witness: a process has returned from a sendrecv in which it posted a
\* receive from and a rendezvous send to real neighbors, and is in its next exchange.
C3_Witness ==
    \E p \in Procs :
        /\ pc[p].call = 2 /\ ~eager
        /\ \E e \in posted : e.p = p /\ e.call = 1 /\ e.op = "MPI_Isend" /\ e.peer # ProcNull
        /\ \E e \in posted : e.p = p /\ e.call = 1 /\ e.op = "MPI_Irecv" /\ e.peer # ProcNull

\* C4: a gather is executed only with a destination other than MPI_PROC_NULL,
\* a scatter only with a source other than MPI_PROC_NULL, and the halo region
\* on a side without neighbor keeps the content it had before the exchange.
C4_BoundaryMasking ==
    /\ \A e \in posted : e.op \in {"gather", "scatter"} => e.peer # ProcNull
    /\ \A p \in Procs : \A i \in 1..Len(Sides) :
          Neighbor(p, 1, Sides[i]) = ProcNull => halo[p][<<1, Sides[i]>>] = HaloInit(1, Sides[i])

\* C4 witness: a process has returned from a sendrecv whose source rank was
\* MPI_PROC_NULL (its scatter was skipped).
C4_Witness ==
    \E e \in posted : e.op = "MPI_Irecv" /\ e.peer = ProcNull /\ pc[e.p].call > e.call

Sym(k, i) == <<k, i, "", "">>
FieldSym(k, d, region, side) == <<k, d, region, side>>
NoName == <<"", 0, -1>>
Stmt(o, g, callee, args) == [op |-> o, guard |-> g, callee |-> callee, args |-> args]
Callable(name, body, params) == [name |-> name, body |-> body, params |-> params]

\* the kind of a parameter or argument: data array, size, offset, rank,
\* handle (communicator, neighborhood), auxiliary parameter
Role(s) ==
    CASE s[1] \in {"f", "buf", "bufg", "bufs"} -> "data"
      [] s[1] \in {"bufsize", "size"} -> "size"
      [] s[1] \in {"o", "og", "os", "ofs", "idx"} -> "offset"
      [] s[1] \in {"fromrank", "torank", "peer"} -> "rank"
      [] s[1] \in {"comm", "nb"} -> "handle"
      [] OTHER -> "aux"

Roles(ss) == [i \in 1..Len(ss) |-> Role(ss[i])]

\* the subsequence of dims that are not in fixed
RECURSIVE NonFixed(_, _)
NonFixed(dims, fixed) ==
    IF dims = <<>> THEN <<>>
    ELSE (IF Head(dims) \in fixed THEN <<>> ELSE <<Head(dims)>>) \o NonFixed(Tail(dims), fixed)

\* state.input of transform(iet, 'simd', {'openmp': self._threaded})
StateInput(thr) == IF thr THEN <<Sym("aux", 1)>> ELSE <<>>

\* list(buf.shape) for buf = Array(name=b, dimensions=buf_dims)
BufShape(dims, fixed) == SeqMap(LAMBDA d : Sym("bufsize", d), NonFixed(dims, fixed))

CopyName(ndim, swap) == <<IF swap THEN "scatter" ELSE "gather", ndim, -1>>

\* _make_copy(f, fixed, swap): the Callable and state.input
MakeCopy(dims, fixed, swap, thr) ==
    LET f_offsets == SeqMap(LAMBDA d : Sym("o", d), dims)
        parameters == <<Sym("buf", 0)>> \o BufShape(dims, fixed) \o <<Sym("f", 0)>>
                      \o f_offsets \o StateInput(thr)
        iet == << Stmt(IF swap THEN "copy_buf_to_f" ELSE "copy_f_to_buf", "none", NoName,
                       NonFixed(dims, fixed)) >>
    IN  [callable |-> Callable(CopyName(Len(dims), swap), iet, parameters),
         input |-> StateInput(thr)]

\* the statement a SendRecvBody operation stands for
SendRecvStmt(o, dims, fixed, ex) ==
    LET ofsg == SeqMap(LAMBDA d : Sym("og", d), dims)
        ofss == SeqMap(LAMBDA d : Sym("os", d), dims)
    IN  CASE o.op = "gather" ->
               Stmt(o.op, o.guard, CopyName(Len(dims), FALSE),
                    <<Sym("bufg", 0)>> \o BufShape(dims, fixed) \o <<Sym("f", 0)>> \o ofsg \o ex)
          [] o.op = "scatter" ->
               Stmt(o.op, o.guard, CopyName(Len(dims), TRUE),
                    <<Sym("bufs", 0)>> \o BufShape(dims, fixed) \o <<Sym("f", 0)>> \o ofss \o ex)
          [] OTHER -> Stmt(o.op, o.guard, NoName, <<>>)

\* _make_sendrecv(f, fixed, extra)
MakeSendRecv(dims, fixed, ex) ==
    LET ofsg == SeqMap(LAMBDA d : Sym("og", d), dims)
        ofss == SeqMap(LAMBDA d : Sym("os", d), dims)
        iet == [i \in 1..Len(SendRecvBody) |-> SendRecvStmt(SendRecvBody[i], dims, fixed, ex)]
        parameters == <<Sym("f", 0)>> \o BufShape(dims, fixed) \o ofsg \o ofss
                      \o <<Sym("fromrank", 0), Sym("torank", 0), Sym("comm", 0)>> \o ex
    IN  Callable(<<"sendrecv", Len(dims), -1>>, iet, parameters)

\* mapper[(d0, side, region)] = (sizes, offsets) of _make_haloupdate
MapperSizes(dims, fixed, d0, side, region) ==
    SeqMap(LAMBDA d1 : FieldSym("size", d1, IF d0 = d1 THEN region ELSE NOPAD, side),
           NonFixed(dims, fixed))

MapperOffsets(dims, fixed, d0, side, region) ==
    SeqMap(LAMBDA d1 : IF d1 \in fixed THEN Sym("o", d1)
                       ELSE FieldSym("ofs", d1, IF d0 = d1 THEN region ELSE NOPAD, side),
           dims)

\* the Call('sendrecv%dd' % f.ndim, args) of one exchange
SendRecvCall(dims, fixed, x, ex) ==
    Stmt("call", "none", <<"sendrecv", Len(dims), -1>>,
         <<Sym("f", 0)>>
         \o MapperSizes(dims, fixed, x.gather[1], x.gather[2], x.gather[3])
         \o MapperOffsets(dims, fixed, x.gather[1], x.gather[2], x.gather[3])
         \o MapperOffsets(dims, fixed, x.scatter[1], x.scatter[2], x.scatter[3])
         \o <<FieldSym("peer", x.dim, "", x.fromrank), FieldSym("peer", x.dim, "", x.torank),
              Sym("comm", 0)>>
         \o ex)

\* MakeHaloUpdate named after the number of flags of its mask, the unique
\* key ignored
MakeHaloUpdate_MaskName(dims, fixed, mask, ex, uniquekey) ==
    LET body == SeqMap(LAMBDA x : SendRecvCall(dims, fixed, x, ex),
                       HaloUpdateBody(dims, fixed, mask))
        parameters == <<Sym("f", 0), Sym("comm", 0), Sym("nb", 0)>>
                      \o SeqMap(LAMBDA d : Sym("o", d), NonFixed(dims, (SeqRange(dims) \ fixed)))
                      \o ex
    IN  Callable(<<"haloupdate", Len(dims), Cardinality(mask)>>, body, parameters)

\* _make_haloupdate(f, fixed, mask, extra, uniquekey)
MakeHaloUpdate(dims, fixed, mask, ex, uniquekey) ==
    LET body == SeqMap(LAMBDA x : SendRecvCall(dims, fixed, x, ex),
                       HaloUpdateBody(dims, fixed, mask))
        parameters == <<Sym("f", 0), Sym("comm", 0), Sym("nb", 0)>>
                      \o SeqMap(LAMBDA d : Sym("o", d), NonFixed(dims, (SeqRange(dims) \ fixed)))
                      \o ex
    IN  Callable(<<"haloupdate", Len(dims), uniquekey>>, body, parameters)

\* The Functions of the halo spots: rank 1 (x), rank 2 (x, y) and the rank 2
\* (t, x) of a time-varying Function, whose dimension t (0) is fixed at the
\* index loc_indices[t].
TimeDim == 0
Shapes ==
    { [dims |-> <<1>>, loc |-> {}], [dims |-> <<1, 2>>, loc |-> {}] }
    \cup { [dims |-> <<TimeDim, 1>>, loc |-> {<<TimeDim, i>>}] : i \in {0, 1} }

FixedOf(loc) == {x[1] : x \in loc}

\* the masks of the halo spots: every mask over one non-fixed dimension, and
\* over two non-fixed dimensions the masks with no flag, one flag, flags of
\* different sides in the two dimensions, both flags of one dimension, all flags
MasksOf(dims, fixed) ==
    LET nf == NonFixed(dims, fixed)
    IN  IF Len(nf) = 1
        THEN SUBSET {<<nf[1], LEFT>>, <<nf[1], RIGHT>>}
        ELSE { {}, {<<nf[1], LEFT>>}, {<<nf[1], RIGHT>>, <<nf[2], LEFT>>},
               {<<nf[1], LEFT>>, <<nf[1], RIGHT>>}, {<<nf[2], LEFT>>, <<nf[2], RIGHT>>},
               {<<nf[1], LEFT>>, <<nf[1], RIGHT>>, <<nf[2], LEFT>>, <<nf[2], RIGHT>>} }

\* a halo spot with its one Function: hs.fmapper = {f: v}, hs.mask[f]
SpotKinds ==
    UNION { { [f |-> n, dims |-> sh.dims, loc |-> sh.loc, mask |-> m]
              : n \in {"u", "v"}, m \in MasksOf(sh.dims, FixedOf(sh.loc)) } : sh \in Shapes }

\* v, the entry of hs.fmapper for f: the fixed indices and the halos to exchange
FmapperEntry(s) == [loc_indices |-> s.loc, halos |-> s.mask]
NoEntry == [loc_indices |-> {}, halos |-> {}]

\* keys of `generated`: f.ndim, or the tuple (f.ndim, v)
NdimKey(nd) == [tuple |-> FALSE, ndim |-> nd, v |-> NoEntry]
TupleKey(nd, v) == [tuple |-> TRUE, ndim |-> nd, v |-> v]

HasKey(gen, k) == \E i \in 1..Len(gen) : gen[i].key = k
Lookup(gen, k) == gen[CHOOSE i \in 1..Len(gen) : gen[i].key = k].val

\* list(v.loc_indices.values())
LocIndices(s) ==
    SeqMap(LAMBDA d : Sym("idx", (CHOOSE x \in s.loc : x[1] = d)[2]),
           NonFixed(s.dims, SeqRange(s.dims) \ FixedOf(s.loc)))

\* one iteration of `for hs in halo_spots: for f, v in hs.fmapper.items():`
MakeSpot ==
    /\ mkpc = "loop" /\ hsi <= Len(spots)
    /\ LET s == spots[hsi]
           nd == Len(s.dims)
           fixed == FixedOf(s.loc)
           v == FmapperEntry(s)
           fresh == ~HasKey(generated, NdimKey(nd))
           gather == MakeCopy(s.dims, fixed, FALSE, threaded)
           scatter == MakeCopy(s.dims, fixed, TRUE, threaded)
           extra1 == IF fresh THEN gather.input ELSE extra
           sendrecv == MakeSendRecv(s.dims, fixed, extra1)
           gen1 == IF fresh
                   THEN Append(generated, [key |-> NdimKey(nd),
                                           val |-> <<gather.callable, scatter.callable, sendrecv>>])
                   ELSE generated
           uniquekey == Cardinality({i \in 1..Len(gen1) : gen1[i].key.tuple})
           gen2 == IF ~HasKey(gen1, TupleKey(nd, v))
                   THEN Append(gen1, [key |-> TupleKey(nd, v),
                                      val |-> <<MakeHaloUpdate(s.dims, fixed, s.mask,
                                                               extra1, uniquekey)>>])
                   ELSE gen1
           args == <<FieldSym("f", 0, s.f, ""), Sym("comm", 0), Sym("nb", 0)>>
                   \o LocIndices(s) \o extra1
           call == Stmt("call", "none", Lookup(gen2, TupleKey(nd, v))[1].name, args)
       IN  /\ generated' = gen2
           /\ extra' = extra1
           /\ calls' = Append(calls, [hs |-> hsi, call |-> call])
    /\ hsi' = hsi + 1
    /\ UNCHANGED <<spots, threaded, mkpc, mkresult, mfirst>>

\* return flatten(generated.values()), calls
MakeReturn ==
    /\ mkpc = "loop" /\ hsi = Len(spots) + 1
    /\ mkpc' = "done"
    /\ mkresult' = SeqConcat([i \in 1..Len(generated) |-> generated[i].val])
    /\ UNCHANGED <<spots, hsi, generated, calls, extra, threaded, mfirst>>

\* make is called with 1..maxn halo spots; the Function of the first one is
\* called "u" (the names are interchangeable)
MakeStart(maxn) ==
    /\ \E n \in 1..maxn : \E q \in [1..n -> SpotKinds] : q[1].f = "u" /\ spots = q
    /\ threaded \in BOOLEAN
    /\ hsi = 1 /\ generated = <<>> /\ calls = <<>> /\ extra = <<>>
    /\ mkpc = "loop" /\ mkresult = <<>> /\ mfirst = NoRun

MakeInit == MakeStart(MaxSpots)

NextMake ==
    \/ MakeSpot /\ UNCHANGED notMake
    \/ MakeReturn /\ UNCHANGED notMake

InitMake == MakeInit /\ MpiIdle /\ EfuncsIdle /\ TargetIdle /\ MergeIdle /\ CacheIdle

SpecMake == InitMake /\ [][NextMake]_vars

\* the Callables in `generated` so far, and those whose routine is r
GeneratedCallables == SeqConcat([i \in 1..Len(generated) |-> generated[i].val])
Routines(cs, r) == {i \in 1..Len(cs) : cs[i].name[1] = r}

\* the structure of a body: each operation and whether a Conditional wraps it
Structure(body) == [i \in 1..Len(body) |-> <<body[i].op, body[i].guard # "none">>]

MaskOf(s) == <<NonFixed(s.dims, FixedOf(s.loc)), s.mask>>

\* C6 (as stated): for halo spots over arrays of one rank that carry K distinct
\* masks, make returns exactly one gather, one scatter, one sendrecv and
\* exactly K haloupdate Callables.
C6_Orig_Dedup ==
    (mkpc = "done" /\ \A i \in 1..Len(spots) : Len(spots[i].dims) = Len(spots[1].dims)) =>
        /\ Cardinality(Routines(mkresult, "gather")) = 1
        /\ Cardinality(Routines(mkresult, "scatter")) = 1
        /\ Cardinality(Routines(mkresult, "sendrecv")) = 1
        /\ Cardinality(Routines(mkresult, "haloupdate")) =
              Cardinality({MaskOf(spots[i]) : i \in 1..Len(spots)})

\* the Calls to generated routines: those in the bodies of the returned
\* Callables and the haloupdate Calls built for the halo spots
GeneratedCalls ==
    UNION {{mkresult[i].body[j] : j \in 1..Len(mkresult[i].body)} : i \in 1..Len(mkresult)}
    \cup {calls[i].call : i \in 1..Len(calls)}

\* C8 (as stated): every Call to gather, scatter, sendrecv or haloupdate names
\* a returned Callable and gives as many arguments, of the same kinds in the
\* same order, as the Callable has parameters.
C8_Orig_CallFidelity ==
    mkpc = "done" =>
        \A c \in GeneratedCalls :
            c.callee # NoName =>
                \E i \in 1..Len(mkresult) :
                    /\ mkresult[i].name = c.callee
                    /\ Roles(c.args) = Roles(mkresult[i].params)

(***************************************************************************)
(* BasicRewriter._create_efuncs: the outlining of tagged, elementizable    *)
(* Iterations into Calls and Callables.                                    *)
(*                                                                         *)
(* The input tree is a forest of Iterations numbered in preorder; an       *)
(* Iteration at depth d iterates over dimension d (x, y, z, ...), its      *)
(* symbolic bounds are (d_m + off, d_M - off), and every innermost         *)
(* Iteration holds an Expression on the array u indexed by the dimensions  *)
(* of all enclosing Iterations.  Iterations have no uindices.              *)
(***************************************************************************)
Tags == 1..2
Offsets == {0, 1}

RECURSIVE Path(_, _)
Path(par, i) == IF i = 0 THEN <<>> ELSE Append(Path(par, par[i]), i)

Depth(par, i) == Len(Path(par, i))
Children(par, i) == {j \in DOMAIN par : par[j] = i}
Subtree(par, r) == {i \in DOMAIN par : r \in SeqRange(Path(par, i))}

RECURSIVE SortedSeq(_)
SortedSeq(S) ==
    IF S = {} THEN <<>>
    ELSE LET m == CHOOSE x \in S : \A y \in S : x <= y
         IN  <<m>> \o SortedSeq(S \ {m})

\* the forests of n Iterations numbered in preorder
Forests(n) ==
    {par \in [1..n -> 0..(n - 1)] :
        /\ \A i \in 1..n : par[i] < i
        /\ \A i \in 2..n : par[i] = 0 \/ par[i] \in SeqRange(Path(par, i - 1))}

\* tag, is_Elementizable and bounds offset of an Iteration: untagged, tagged
\* and elementizable, tagged and not elementizable (for which the pass reads
\* neither the tag's value nor, the Iteration being skipped, its bounds)
ItAttrs ==
    {[tag |-> 0, elem |-> FALSE, off |-> o] : o \in Offsets}
    \cup {[tag |-> t, elem |-> TRUE, off |-> o] : t \in Tags, o \in Offsets}
    \cup {[tag |-> 1, elem |-> FALSE, off |-> 0]}

\* retrieve_iteration_tree(nodes, mode='superset'): the maximal chains of
\* nested Iterations, outermost first, in the order of the tree
IterationTrees(t) ==
    LET leaves == SortedSeq({i \in 1..t.n : Children(t.par, i) = {}})
    IN  [k \in 1..Len(leaves) |-> Path(t.par, leaves[k])]

\* filter_iterations(tree, lambda i: i.tag is not None, 'asap')
FilterTagged(t, tree) == SelectSeq(tree, LAMBDA i : t.it[i].tag # 0)

\* symbols and bounds: <<kind, dimension, offset>>
ESym(k, d) == <<k, d, 0>>
ArrayU == <<"array", 0, 0>>
\* i.symbolic_bounds
SymbolicBounds(t, i) ==
    [min |-> <<"m", Depth(t.par, i), t.it[i].off>>, max |-> <<"M", Depth(t.par, i), t.it[i].off>>]

\* the Iterations of root's nest, those of target rebuilt with the limits
\* (d f_m, d f_M, 1) and offsets=None:
\* Transformer(dict(zip(target, free)), nested=True).visit(root)
FreeBody(t, root, target) ==
    LET sub == SortedSeq(Subtree(t.par, root))
    IN  [k \in 1..Len(sub) |->
           LET i == sub[k]
           IN  [parent |-> IF i = root THEN 0 ELSE t.par[i] - root + 1,
                dim |-> Depth(t.par, i),
                free |-> i \in SeqRange(target),
                off |-> IF i \in SeqRange(target) THEN 0 ELSE t.it[i].off]]

\* the symbols the body refers to and does not define: the array, the
\* limits of its Iterations, and the dimensions of the Iterations around root
FreeSymbols(t, root, target) ==
    {ArrayU}
    \cup UNION {IF i \in SeqRange(target)
                THEN {ESym("fm", Depth(t.par, i)), ESym("fM", Depth(t.par, i))}
                ELSE {ESym("m", Depth(t.par, i)), ESym("M", Depth(t.par, i))}
                : i \in Subtree(t.par, root)}
    \cup {ESym("dim", d) : d \in 1..(Depth(t.par, root) - 1)}

\* the order of derive_parameters: arrays first, then the scalars by name
\* (x, x_M, x_m, xf_M, xf_m, y, ...)
SymKey(s) ==
    IF s[1] = "array" THEN 0
    ELSE 10 * s[2] + (CASE s[1] = "dim" -> 1 [] s[1] = "M" -> 2 [] s[1] = "m" -> 3
                        [] s[1] = "fM" -> 4 [] OTHER -> 5)

RECURSIVE SortByKey(_)
SortByKey(S) ==
    IF S = {} THEN <<>>
    ELSE LET m == CHOOSE x \in S : \A y \in S : SymKey(x) <= SymKey(y)
         IN  <<m>> \o SortByKey(S \ {m})

DeriveParameters(t, root, target) == SortByKey(FreeSymbols(t, root, target))

\* defined_args[name]: the bound the fresh parameter `name` stands for
DefinedArg(t, target, p) ==
    LET i == CHOOSE j \in SeqRange(target) : Depth(t.par, j) = p[2]
    IN  IF p[1] = "fm" THEN SymbolicBounds(t, i).min ELSE SymbolicBounds(t, i).max

\* args.append((argument, parameter)) for i in derive_parameters(free)
ArgOf(t, target, p) ==
    IF p[1] \in {"fm", "fM"} THEN DefinedArg(t, target, p)
    ELSE p

ECall(name, args) == [name |-> name, args |-> args]
NoCall == ECall(0, <<>>)
EFunc(name, body, params) == [name |-> name, body |-> body, params |-> params]

\* CreateEfunc with the registry entry replaced on every request of a name
CreateEfunc_Overwrite ==
    /\ epc = "loop" /\ ci <= Len(IterationTrees(nodes))
    /\ LET tree == IterationTrees(nodes)[ci]
           tagged == FilterTagged(nodes, tree)
       IN  IF tagged = <<>> \/ ~nodes.it[tagged[1]].elem
           THEN UNCHANGED <<functions, mapper, requested>>
           ELSE LET root == tagged[1]
                    k == CHOOSE j \in 1..Len(tree) : tree[j] = root
                    target == SubSeq(tree, k, Len(tree))
                    free == FreeBody(nodes, root, target)
                    params == DeriveParameters(nodes, root, target)
                    call == [j \in 1..Len(params) |-> ArgOf(nodes, target, params[j])]
                    name == nodes.it[root].tag
                    callable == EFunc(name, free, params)
                IN  /\ mapper' = [mapper EXCEPT ![root] = ECall(name, call)]
                    /\ functions' = IF \E j \in 1..Len(functions) : functions[j].name = name
                                    THEN [j \in 1..Len(functions) |->
                                            IF functions[j].name = name THEN callable
                                            ELSE functions[j]]
                                    ELSE Append(functions, callable)
                    /\ requested' = requested \cup {callable}
    /\ ci' = ci + 1
    /\ UNCHANGED <<nodes, epc, processed, efuncs, efirst>>

\* CreateEfunc without the test of root.is_Elementizable
CreateEfunc_AnyTagged ==
    /\ epc = "loop" /\ ci <= Len(IterationTrees(nodes))
    /\ LET tree == IterationTrees(nodes)[ci]
           tagged == FilterTagged(nodes, tree)
       IN  IF tagged = <<>>
           THEN UNCHANGED <<functions, mapper, requested>>
           ELSE LET root == tagged[1]
                    k == CHOOSE j \in 1..Len(tree) : tree[j] = root
                    target == SubSeq(tree, k, Len(tree))
                    free == FreeBody(nodes, root, target)
                    params == DeriveParameters(nodes, root, target)
                    call == [j \in 1..Len(params) |-> ArgOf(nodes, target, params[j])]
                    name == nodes.it[root].tag
                    callable == EFunc(name, free, params)
                IN  /\ mapper' = [mapper EXCEPT ![root] = ECall(name, call)]
                    /\ functions' = IF \E j \in 1..Len(functions) : functions[j].name = name
                                    THEN functions
                                    ELSE Append(functions, callable)
                    /\ requested' = requested \cup {callable}
    /\ ci' = ci + 1
    /\ UNCHANGED <<nodes, epc, processed, efuncs, efirst>>

\* one iteration of `for tree in retrieve_iteration_tree(nodes, mode='superset')`
CreateEfunc ==
    /\ epc = "loop" /\ ci <= Len(IterationTrees(nodes))
    /\ LET tree == IterationTrees(nodes)[ci]
           tagged == FilterTagged(nodes, tree)
       IN  IF tagged = <<>> \/ ~nodes.it[tagged[1]].elem
           THEN UNCHANGED <<functions, mapper, requested>>
           ELSE LET root == tagged[1]
                    k == CHOOSE j \in 1..Len(tree) : tree[j] = root
                    target == SubSeq(tree, k, Len(tree))
                    free == FreeBody(nodes, root, target)
                    params == DeriveParameters(nodes, root, target)
                    call == [j \in 1..Len(params) |-> ArgOf(nodes, target, params[j])]
                    name == nodes.it[root].tag
                    callable == EFunc(name, free, params)
                IN  /\ mapper' = [mapper EXCEPT ![root] = ECall(name, call)]
                    /\ functions' = IF \E j \in 1..Len(functions) : functions[j].name = name
                                    THEN functions
                                    ELSE Append(functions, callable)
                    /\ requested' = requested \cup {callable}
    /\ ci' = ci + 1
    /\ UNCHANGED <<nodes, epc, processed, efuncs, efirst>>

\* TransformTree returning the values of `functions` in an arbitrary order
TransformTree_Unordered ==
    /\ epc = "loop" /\ ci = Len(IterationTrees(nodes)) + 1
    /\ processed' =
          [i \in 1..nodes.n |->
             LET above == SeqRange(Path(nodes.par, i)) \ {i}
             IN  IF \E a \in above : mapper[a] # NoCall
                 THEN [kind |-> "absent", call |-> NoCall]
                 ELSE IF mapper[i] # NoCall
                      THEN [kind |-> "call", call |-> mapper[i]]
                      ELSE [kind |-> "iteration", call |-> NoCall]]
    /\ \E p \in {q \in [1..Len(functions) -> 1..Len(functions)] :
                    \A a \in DOMAIN q : \A b \in DOMAIN q : q[a] = q[b] => a = b} :
          efuncs' = [j \in 1..Len(functions) |-> functions[p[j]]]
    /\ epc' = "done"
    /\ UNCHANGED <<nodes, ci, functions, mapper, requested, efirst>>

\* processed = Transformer(mapper).visit(nodes); return processed, {'efuncs': functions.values()}
TransformTree ==
    /\ epc = "loop" /\ ci = Len(IterationTrees(nodes)) + 1
    /\ processed' =
          [i \in 1..nodes.n |->
             LET above == SeqRange(Path(nodes.par, i)) \ {i}
             IN  IF \E a \in above : mapper[a] # NoCall
                 THEN [kind |-> "absent", call |-> NoCall]
                 ELSE IF mapper[i] # NoCall
                      THEN [kind |-> "call", call |-> mapper[i]]
                      ELSE [kind |-> "iteration", call |-> NoCall]]
    /\ efuncs' = functions
    /\ epc' = "done"
    /\ UNCHANGED <<nodes, ci, functions, mapper, requested, efirst>>

\* the pass is called on a tree of 1..maxn Iterations
EfuncsStart(maxn) ==
    /\ \E n \in 1..maxn : \E par \in Forests(n) : \E it \in [1..n -> ItAttrs] :
          nodes = [n |-> n, par |-> par, it |-> it]
    /\ ci = 1 /\ functions = <<>>
    /\ mapper = [i \in 1..nodes.n |-> NoCall]
    /\ requested = {} /\ epc = "loop" /\ processed = <<>> /\ efuncs = <<>> /\ efirst = NoRun

EfuncsInit == EfuncsStart(MaxNodes)

NextEfuncs ==
    \/ CreateEfunc /\ UNCHANGED notEfuncs
    \/ TransformTree /\ UNCHANGED notEfuncs

InitEfuncs == EfuncsInit /\ MpiIdle /\ MakeIdle /\ TargetIdle /\ MergeIdle /\ CacheIdle

SpecEfuncs == InitEfuncs /\ [][NextEfuncs]_vars

\* the Iterations the pass outlines: the outermost tagged Iteration of a
\* chain, when it is elementizable
OutlinedRoots ==
    {r \in 1..nodes.n :
        \E k \in 1..Len(IterationTrees(nodes)) :
            LET tagged == FilterTagged(nodes, IterationTrees(nodes)[k])
            IN  tagged # <<>> /\ tagged[1] = r /\ nodes.it[r].elem}

PlacedCalls == {processed[i].call : i \in {j \in 1..Len(processed) : processed[j].kind = "call"}}
Registered(name) == {efuncs[j] : j \in {k \in 1..Len(efuncs) : efuncs[k].name = name}}
IsFresh(p) == p[1] \in {"fm", "fM"}

\* C10: a callable name requested twice with structurally different bodies
\* always ends in a fatal error, the registry never silently keeps one of the
\* two definitions: the pass never completes after two requests of one name
\* with different bodies.
C10_Orig_CollisionFatal ==
    epc = "done" =>
        \A r1 \in requested : \A r2 \in requested :
            r1.name = r2.name => r1.body = r2.body

\* C7: every Call placed in the main tree has an argument list of the same
\* length and order as the formal-parameter list of the registered callable
\* it names: argument k is a symbolic bound of the dimension of formal k when
\* formal k is a fresh limit, and the very symbol of formal k otherwise.
C7_Orig_ParameterFidelity ==
    epc = "done" =>
        \A c \in PlacedCalls : \A f \in Registered(c.name) :
            /\ Len(c.args) = Len(f.params)
            /\ \A k \in 1..Len(f.params) :
                  IF IsFresh(f.params[k])
                  THEN /\ c.args[k][1] = (IF f.params[k][1] = "fm" THEN "m" ELSE "M")
                       /\ c.args[k][2] = f.params[k][2]
                  ELSE c.args[k] = f.params[k]

\* C9: after the pass the position of every tagged, eligible nest holds a
\* Call; a Callable with the called name is registered; its body is the nest
\* with the bounds of each Iteration replaced by fresh parameters; and the
\* Call passes, for the fresh parameters of each Iteration, the symbolic
\* bounds that Iteration had.
C9_Orig_OutliningPreservation ==
    epc = "done" =>
        \A r \in OutlinedRoots :
            /\ processed[r].kind = "call"
            /\ \E f \in Registered(processed[r].call.name) :
                  LET sub == SortedSeq(Subtree(nodes.par, r))
                      c == processed[r].call
                  IN  /\ f.body = FreeBody(nodes, r, sub)
                      /\ Len(c.args) = Len(f.params)
                      /\ \A i \in Subtree(nodes.par, r) :
                            \E km \in 1..Len(f.params) : \E kM \in 1..Len(f.params) :
                                /\ f.params[km] = ESym("fm", Depth(nodes.par, i))
                                /\ f.params[kM] = ESym("fM", Depth(nodes.par, i))
                                /\ c.args[km] = SymbolicBounds(nodes, i).min
                                /\ c.args[kM] = SymbolicBounds(nodes, i).max

\* the chains the pass outlines, by position in retrieve_iteration_tree's list
OutlinedChains ==
    {k \in 1..Len(IterationTrees(nodes)) :
        LET tagged == FilterTagged(nodes, IterationTrees(nodes)[k])
        IN  tagged # <<>> /\ nodes.it[tagged[1]].elem}
RootOf(k) == FilterTagged(nodes, IterationTrees(nodes)[k])[1]
OutlinedTags == {nodes.it[r].tag : r \in OutlinedRoots}
\* the Callable built for the first chain whose root carries tag t
FirstBuilt(t) ==
    LET k == CHOOSE j \in OutlinedChains :
                 /\ nodes.it[RootOf(j)].tag = t
                 /\ \A l \in OutlinedChains : nodes.it[RootOf(l)].tag = t => j <= l
        tree == IterationTrees(nodes)[k]
        p == CHOOSE j \in 1..Len(tree) : tree[j] = RootOf(k)
        target == SubSeq(tree, p, Len(tree))
    IN  EFunc(t, FreeBody(nodes, RootOf(k), target), DeriveParameters(nodes, RootOf(k), target))

\* C11: a root whose callable name is already registered does not replace
\* the registered callable: the registry holds exactly one callable per
\* distinct tag, the first one built, and every tagged eligible root holds a
\* Call of its own, so that there are as many Calls as tagged eligible roots.
C11_OnePerTagCallPerRoot ==
    /\ \A j \in 1..Len(functions) : \A l \in 1..Len(functions) :
          functions[j].name = functions[l].name => j = l
    /\ epc = "done" =>
          /\ Len(efuncs) = Cardinality(OutlinedTags)
          /\ \A t \in OutlinedTags : Registered(t) = {FirstBuilt(t)}
          /\ \A r \in OutlinedRoots :
                processed[r].kind = "call" /\ processed[r].call.name = nodes.it[r].tag
          /\ Cardinality({i \in 1..nodes.n : processed[i].kind = "call"})
                = Cardinality(OutlinedRoots)

\* the pass has completed on two eligible roots with one tag and different nests
C11_Witness ==
    /\ epc = "done"
    /\ \E a \in OutlinedRoots : \E b \in OutlinedRoots :
          a # b /\ nodes.it[a].tag = nodes.it[b].tag
    /\ \E r1 \in requested : \E r2 \in requested : r1.name = r2.name /\ r1 # r2
    /\ Len(efuncs) = 1

\* the chains the pass skips: no tagged Iteration, or the outermost tagged
\* Iteration is not elementizable
SkippedChains == (1..Len(IterationTrees(nodes))) \ OutlinedChains

\* C12: a chain without tagged Iteration, or whose tagged Iteration is not
\* eligible, is left unchanged in the output tree and no callable is
\* registered for it: none of its Iterations is ever mapped to a Call, all of
\* them are Iterations of the processed tree, and every registered callable
\* carries the tag of an outlined root.
C12_SkippedChainsUntouched ==
    /\ \A k \in SkippedChains : \A i \in SeqRange(IterationTrees(nodes)[k]) :
          mapper[i] = NoCall
    /\ \A j \in 1..Len(functions) : functions[j].name \in OutlinedTags
    /\ \A f \in requested : f.name \in OutlinedTags
    /\ epc = "done" =>
          /\ \A k \in SkippedChains : \A i \in SeqRange(IterationTrees(nodes)[k]) :
                processed[i] = [kind |-> "iteration", call |-> NoCall]
          /\ \A j \in 1..Len(efuncs) : efuncs[j].name \in OutlinedTags

\* the pass has completed on a tree with an untagged chain, a chain whose
\* tagged Iteration is not elementizable, and an outlined chain
C12_Witness ==
    /\ epc = "done"
    /\ \E k \in SkippedChains : FilterTagged(nodes, IterationTrees(nodes)[k]) = <<>>
    /\ \E k \in SkippedChains : FilterTagged(nodes, IterationTrees(nodes)[k]) # <<>>
    /\ OutlinedChains # {}
    /\ Len(efuncs) = 1

\* the haloupdate Callables in `generated`, each with a halo spot it was
\* built for
HaloUpdates ==
    {[callable |-> generated[i].val[1],
      spot |-> spots[CHOOSE j \in 1..Len(spots) :
                        /\ TupleKey(Len(spots[j].dims), FmapperEntry(spots[j])) = generated[i].key
                        /\ \A l \in 1..(j - 1) :
                              TupleKey(Len(spots[l].dims), FmapperEntry(spots[l])) # generated[i].key]]
     : i \in {j \in 1..Len(generated) : generated[j].key.tuple}}

\* positions of the arguments of a Call to sendrecv for Function dimensions
\* dims with nf non-fixed ones: f, sizes, offsets of the gather, offsets of
\* the scatter, fromrank, torank, comm
ArgSizes(c, dims, nf) == SubSeq(c.args, 2, 1 + nf)
ArgGatherOfs(c, dims, nf) == SubSeq(c.args, 2 + nf, 1 + nf + Len(dims))
ArgScatterOfs(c, dims, nf) == SubSeq(c.args, 2 + nf + Len(dims), 1 + nf + 2 * Len(dims))
ArgFromRank(c, dims, nf) == c.args[2 + nf + 2 * Len(dims)]
ArgToRank(c, dims, nf) == c.args[3 + nf + 2 * Len(dims)]

\* the (dimension, side) flags in the order of f.dimensions, left before right
RECURSIVE FlagsInOrder(_)
FlagsInOrder(dims) ==
    IF dims = <<>> THEN <<>>
    ELSE <<<<Head(dims), LEFT>>, <<Head(dims), RIGHT>>>> \o FlagsInOrder(Tail(dims))

\* the flag a Call to sendrecv serves: data is sent towards the flag's side
FlagOfCall(c, dims, nf) == <<ArgToRank(c, dims, nf)[2], ArgToRank(c, dims, nf)[4]>>

\* C13: the haloupdate built for a mask contains exactly one Call to the
\* sendrecv routine for each (non-fixed dimension, side) whose flag is true
\* and none for a false flag, in the order of the Function's dimensions with
\* left before right; a 2-D mask with both flags of the first dimension set
\* and both of the second clear yields exactly 2 Calls, both for the first.
C13_OneCallPerSetFlag ==
    \A h \in HaloUpdates :
        LET dims == h.spot.dims
            fixed == FixedOf(h.spot.loc)
            nf == Len(NonFixed(dims, fixed))
            body == h.callable.body
            set == SelectSeq(FlagsInOrder(dims),
                             LAMBDA x : x[1] \notin fixed /\ x \in h.spot.mask)
        IN  /\ \A k \in 1..Len(body) :
                  body[k].op = "call" /\ body[k].callee = <<"sendrecv", Len(dims), -1>>
            /\ [k \in 1..Len(body) |-> FlagOfCall(body[k], dims, nf)] = set
            /\ (dims = <<1, 2>> /\ h.spot.mask = {<<1, LEFT>>, <<1, RIGHT>>})
                  => Len(body) = 2 /\ \A k \in 1..2 : ArgToRank(body[k], dims, nf)[2] = 1

\* a haloupdate has been built for the 2-D mask with both flags of the first
\* dimension, and one for a mask with flags of two dimensions
C13_Witness ==
    /\ \E h \in HaloUpdates :
          /\ h.spot.dims = <<1, 2>> /\ h.spot.mask = {<<1, LEFT>>, <<1, RIGHT>>}
          /\ Len(h.callable.body) = 2
    /\ \E h \in HaloUpdates :
          /\ h.spot.mask = {<<1, RIGHT>>, <<2, LEFT>>}
          /\ Len(h.callable.body) = 2

Opposite(side) == IF side = LEFT THEN RIGHT ELSE LEFT

\* the arguments of Call c received by the formal parameters of kind k of
\* Callable f, in order (arguments bind to parameters by position)
BoundTo(c, f, k) ==
    LET pos == SelectSeq([j \in 1..Len(c.args) |-> j],
                         LAMBDA j : j <= Len(f.params) /\ f.params[j][1] = k)
    IN  [j \in 1..Len(pos) |-> c.args[pos[j]]]

\* the sendrecv Callable generated for Functions of nd dimensions
SendRecvOf(nd) == Lookup(generated, NdimKey(nd))[3]

\* the offsets of region `region` on side `side` of dimension d: in every
\* other dimension the unpadded extent, or the offset of a fixed dimension
IsRegionOf(ofs, dims, fixed, d, side, region) ==
    /\ Len(ofs) = Len(dims)
    /\ \A j \in 1..Len(dims) :
          IF dims[j] \in fixed THEN ofs[j] = Sym("o", dims[j])
          ELSE IF dims[j] = d THEN ofs[j] = FieldSym("ofs", d, region, side)
          ELSE ofs[j][1] = "ofs" /\ ofs[j][2] = dims[j] /\ ofs[j][3] = NOPAD

\* C14: every exchange emitted by haloupdate is correctly oriented.  The Call
\* for the left flag of d hands the sendrecv routine the owned-left region of
\* d as gather source, the halo-right region of d as scatter destination, the
\* right neighbor as source rank and the left neighbor as destination rank;
\* the Call for the right flag the owned-right region, the halo-left region,
\* the left neighbor as source and the right neighbor as destination.
C14_Orig_Orientation ==
    \A h \in HaloUpdates :
        LET dims == h.spot.dims
            fixed == FixedOf(h.spot.loc)
            body == h.callable.body
            set == SelectSeq(FlagsInOrder(dims),
                             LAMBDA x : x[1] \notin fixed /\ x \in h.spot.mask)
            sr == SendRecvOf(Len(dims))
        IN  /\ Len(body) = Len(set)
            /\ \A k \in 1..Len(body) :
                  LET d == set[k][1]
                      side == set[k][2]
                  IN  /\ IsRegionOf(BoundTo(body[k], sr, "og"), dims, fixed, d, side, OWNED)
                      /\ IsRegionOf(BoundTo(body[k], sr, "os"), dims, fixed, d,
                                    Opposite(side), HALO)
                      /\ BoundTo(body[k], sr, "fromrank")
                            = <<FieldSym("peer", d, "", Opposite(side))>>
                      /\ BoundTo(body[k], sr, "torank") = <<FieldSym("peer", d, "", side)>>

(***************************************************************************)
(* Repeated runs: the outlining pass, or make, is run a second time on the *)
(* input of its first run; what the first run returned is kept in efirst   *)
(* (mfirst).                                                               *)
(***************************************************************************)
RerunEfuncs ==
    /\ epc = "done" /\ ~efirst.done
    /\ efirst' = [done |-> TRUE, tree |-> processed, callables |-> efuncs]
    /\ ci' = 1 /\ functions' = <<>>
    /\ mapper' = [i \in 1..nodes.n |-> NoCall]
    /\ requested' = {} /\ epc' = "loop" /\ processed' = <<>> /\ efuncs' = <<>>
    /\ UNCHANGED nodes

RerunMake ==
    /\ mkpc = "done" /\ ~mfirst.done
    /\ mfirst' = [done |-> TRUE, tree |-> calls, callables |-> mkresult]
    /\ hsi' = 1 /\ generated' = <<>> /\ calls' = <<>> /\ extra' = <<>>
    /\ mkpc' = "loop" /\ mkresult' = <<>>
    /\ UNCHANGED <<spots, threaded>>

InitRerun ==
    \/ EfuncsStart(RerunNodes) /\ MpiIdle /\ MakeIdle /\ TargetIdle /\ MergeIdle /\ CacheIdle
    \/ MakeStart(RerunSpots) /\ MpiIdle /\ EfuncsIdle /\ TargetIdle /\ MergeIdle /\ CacheIdle

NextRerun ==
    \/ CreateEfunc /\ UNCHANGED notEfuncs
    \/ TransformTree /\ UNCHANGED notEfuncs
    \/ RerunEfuncs /\ UNCHANGED notEfuncs
    \/ MakeSpot /\ UNCHANGED notMake
    \/ MakeReturn /\ UNCHANGED notMake
    \/ RerunMake /\ UNCHANGED notMake

SpecRerun == InitRerun /\ [][NextRerun]_vars

COLLAPSE_NCORES == 1
COLLAPSE_WORK == 1
VECTOR == <<"VECTOR", 0>>
COLLAPSED(n) == <<"COLLAPSED", n>>
\* lang['par-for-teams'](i)
ParForTeams(n) == <<"omp target teams distribute parallel for collapse", n>>

\* the keys of make_simd's mapper: the Iterations with i.is_Vectorizable
SimdMapper(t) == {i \in 1..t.n : t.it[i].vec}

\* Transformer(mapper).visit(tree), nested=False: a node is visited unless an
\* Iteration around it is a key of the mapper, whose replacement is put in
\* the tree as it is, with the body it was built with
Visited(t, keys, i) == \A a \in SeqRange(Path(t.par, i)) \ {i} : a \notin keys

\* make_simd(iet)
MakeSimd ==
    /\ opc = "simd"
    /\ simd' = [i \in 1..gtree.n |->
                  IF i \in SimdMapper(gtree) /\ Visited(gtree, SimdMapper(gtree), i)
                  THEN FALSE      \* i._rebuild(properties without VECTOR)
                  ELSE gtree.it[i].vec]
    /\ opc' = "par"
    /\ UNCHANGED <<gtree, ncores, work, candidates, partree>>

\* the longest prefix of s whose Iterations are safe to collapse
RECURSIVE CollapsablePrefix(_)
CollapsablePrefix(s) ==
    IF s = <<>> \/ ~gtree.it[Head(s)].coll THEN <<>>
    ELSE <<Head(s)>> \o CollapsablePrefix(Tail(s))

\* Ompizer._find_collapsable(root, candidates) with the thresholds of
\* OffloadingOmpizer
FindCollapsable(cands) ==
    IF ncores >= COLLAPSE_NCORES /\ work >= COLLAPSE_WORK
    THEN CollapsablePrefix(Tail(cands))
    ELSE <<>>

\* _make_partree with the collapse degree counting only the nested Iterations
MakePartree_NestedOnly ==
    /\ opc = "par"
    /\ \E k \in 1..Len(IterationTrees(gtree)) :
          \E j \in 1..Len(IterationTrees(gtree)[k]) :
              LET tree == IterationTrees(gtree)[k]
                  cands == SubSeq(tree, j, Len(tree))
                  root == cands[1]
                  collapsable == FindCollapsable(cands)
                  ncollapse == Len(collapsable)
              IN  /\ candidates' = cands
                  /\ partree' =
                        [root |-> root,
                         pragmas |-> [i \in 1..gtree.n |->
                                        IF i = root THEN <<ParForTeams(ncollapse)>> ELSE <<>>],
                         properties |-> [i \in 1..gtree.n |->
                                           (IF simd[i] THEN {VECTOR} ELSE {})
                                           \cup (IF i = root THEN {COLLAPSED(ncollapse)} ELSE {})],
                         collapsed |-> <<root>> \o collapsable]
    /\ opc' = "done"
    /\ UNCHANGED <<gtree, ncores, work, simd>>

\* _make_partree(candidates)
MakePartree ==
    /\ opc = "par"
    /\ \E k \in 1..Len(IterationTrees(gtree)) :
          \E j \in 1..Len(IterationTrees(gtree)[k]) :
              LET tree == IterationTrees(gtree)[k]
                  cands == SubSeq(tree, j, Len(tree))
                  root == cands[1]
                  collapsable == FindCollapsable(cands)
                  ncollapse == 1 + Len(collapsable)
              IN  /\ candidates' = cands
                  /\ partree' =
                        [root |-> root,
                         pragmas |-> [i \in 1..gtree.n |->
                                        IF i = root THEN <<ParForTeams(ncollapse)>> ELSE <<>>],
                         properties |-> [i \in 1..gtree.n |->
                                           (IF simd[i] THEN {VECTOR} ELSE {})
                                           \cup (IF i = root THEN {COLLAPSED(ncollapse)} ELSE {})],
                         collapsed |-> <<root>> \o collapsable]
    /\ opc' = "done"
    /\ UNCHANGED <<gtree, ncores, work, simd>>

\* a tree of 1..maxn Iterations is given to the ompizer
OmpStart(maxn, maxc, maxw) ==
    /\ \E n \in 1..maxn : \E par \in Forests(n) :
          \E it \in [1..n -> [vec : BOOLEAN, coll : BOOLEAN]] :
              gtree = [n |-> n, par |-> par, it |-> it]
    /\ ncores \in 1..maxc /\ work \in 1..maxw
    /\ simd = <<>> /\ candidates = <<>> /\ partree = <<>> /\ opc = "simd"

OmpInit == OmpStart(OmpNodes, MaxCores, MaxWork)

NextOmp ==
    \/ MakeSimd /\ UNCHANGED notOmp
    \/ MakePartree /\ UNCHANGED notOmp

InitOmp == OmpInit /\ PipeIdle /\ DataIdle /\ ArrayIdle /\ MpiIdle /\ MakeIdle /\ EfuncsIdle /\ MergeIdle /\ CacheIdle

SpecOmp == InitOmp /\ [][NextOmp]_vars

\* C16: after make_simd no Iteration of the tree carries the VECTOR
\* property, whatever the nesting of the vectorizable Iterations.
C16_Orig_NoVectorLeft ==
    opc \in {"par", "done"} => \A i \in 1..gtree.n : ~simd[i]

\* the number of consecutive candidates below the root that are safe to
\* collapse
EligibleBelow(cands) ==
    LET ks == {k \in 0..(Len(cands) - 1) : \A j \in 2..(k + 1) : gtree.it[cands[j]].coll}
    IN  CHOOSE k \in ks : \A l \in ks : l <= k

TeamsPragmas(i) ==
    {k \in 1..Len(partree.pragmas[i]) :
        partree.pragmas[i][k][1] = "omp target teams distribute parallel for collapse"}

\* C17: parallelizing a root with its candidates attaches exactly one
\* teams-distribute directive, to the root only; its collapse degree is 1
\* plus the number of collapsable nested Iterations, every eligible nested
\* level being collapsed; the COLLAPSED property added to the root carries
\* the same degree; three perfectly nested eligible Iterations give degree 3.
C17_OneDirectiveFullCollapse ==
    opc = "done" =>
        LET root == candidates[1]
            degree == 1 + EligibleBelow(candidates)
        IN  /\ \A i \in 1..gtree.n : Cardinality(TeamsPragmas(i)) = (IF i = root THEN 1 ELSE 0)
            /\ partree.pragmas[root] = <<ParForTeams(degree)>>
            /\ \A i \in 1..gtree.n : \A p \in partree.properties[i] :
                  p[1] = "COLLAPSED" => i = root /\ p[2] = degree
            /\ COLLAPSED(degree) \in partree.properties[root]
            /\ Len(partree.collapsed) = degree
            /\ (Len(candidates) = 3 /\ \A j \in 2..3 : gtree.it[candidates[j]].coll)
                  => degree = 3

\* _make_partree has been applied to three perfectly nested eligible
\* Iterations, with the least estimates of cores and work
C17_Witness ==
    /\ opc = "done" /\ Len(candidates) = 3
    /\ \A j \in 2..3 : gtree.it[candidates[j]].coll
    /\ ncores = 1 /\ work = 1
    /\ partree.pragmas[candidates[1]] = <<ParForTeams(3)>>

(***************************************************************************)
(* DeviceOffloadingTarget._pipeline: one action per statement.  make_simd  *)
(* is the pass modelled above; the other passes are not part of this       *)
(* module and are recorded by name in `graph`, the sequence of passes      *)
(* that have transformed the graph.                                        *)
(***************************************************************************)
\* values of params['mpi']: False, or the mode of the halo exchange
MpiModes == {"False", "basic", "diag"}
Truthy(v) == v # "False"

\* a pass is called on the graph
CallPass(name) == trace' = Append(trace, name) /\ graph' = Append(graph, name)
SkipPass == UNCHANGED <<trace, graph>>

\* optimize_halospots(graph)
PipeOptimizeHalospots ==
    /\ ppc = 1 /\ CallPass("optimize_halospots") /\ ppc' = 2
    /\ UNCHANGED <<tparams, ompvars>>

\* mpiize called whatever params['mpi'] is
PipeMpiize_Unconditional ==
    /\ ppc = 2 /\ CallPass("mpiize") /\ ppc' = 3
    /\ UNCHANGED <<tparams, ompvars>>

\* if self.params['mpi']: mpiize(graph, mode=self.params['mpi'])
PipeMpiize ==
    /\ ppc = 2
    /\ IF Truthy(tparams.mpi) THEN CallPass("mpiize") ELSE SkipPass
    /\ ppc' = 3
    /\ UNCHANGED <<tparams, ompvars>>

\* self.ompizer.make_simd(graph, simd_reg_size=self.platform.simd_reg_size)
PipeMakeSimd ==
    /\ ppc = 3 /\ MakeSimd /\ CallPass("make_simd") /\ ppc' = 4
    /\ UNCHANGED tparams

\* if self.params['openmp']: self.ompizer.make_parallel(graph)
PipeMakeParallel ==
    /\ ppc = 4
    /\ IF tparams.openmp THEN CallPass("make_parallel") ELSE SkipPass
    /\ ppc' = 5
    /\ UNCHANGED <<tparams, ompvars>>

\* hoist_prodders(graph)
PipeHoistProdders ==
    /\ ppc = 5 /\ CallPass("hoist_prodders") /\ ppc' = 6
    /\ UNCHANGED <<tparams, ompvars>>

\* self.data_manager.place_definitions(graph)
PipePlaceDefinitions ==
    /\ ppc = 6 /\ CallPass("place_definitions") /\ ppc' = 7
    /\ UNCHANGED <<tparams, ompvars>>

\* self.data_manager.place_casts(graph)
PipePlaceCasts ==
    /\ ppc = 7 /\ CallPass("place_casts") /\ ppc' = 8
    /\ UNCHANGED <<tparams, ompvars>>

PipeInit ==
    /\ tparams \in [mpi : MpiModes, openmp : BOOLEAN]
    /\ ppc = 1 /\ trace = <<>> /\ graph = <<>>

NextPipe ==
    \/ PipeOptimizeHalospots /\ UNCHANGED notPipe
    \/ PipeMpiize /\ UNCHANGED notPipe
    \/ PipeMakeSimd /\ UNCHANGED notPipe
    \/ PipeMakeParallel /\ UNCHANGED notPipe
    \/ PipeHoistProdders /\ UNCHANGED notPipe
    \/ PipePlaceDefinitions /\ UNCHANGED notPipe
    \/ PipePlaceCasts /\ UNCHANGED notPipe

InitPipe == PipeInit /\ OmpStart(PipeNodes, 1, 1) /\ DataIdle /\ ArrayIdle /\ MpiIdle /\ MakeIdle /\ EfuncsIdle /\ MergeIdle /\ CacheIdle

SpecPipe == InitPipe /\ [][NextPipe]_vars

\* the fixed order of the passes of the device pipeline
PassOrder ==
    <<"optimize_halospots", "mpiize", "make_simd", "make_parallel", "hoist_prodders",
      "place_definitions", "place_casts">>
Enabled(name) ==
    CASE name = "mpiize" -> Truthy(tparams.mpi)
      [] name = "make_parallel" -> tparams.openmp
      [] OTHER -> TRUE

\* C18: the device pipeline calls its passes strictly in the order halo-spot
\* optimization, halo exchange, vector stripping, parallelization, prodder
\* hoisting, definition placement, cast placement; with distributed exchange
\* disabled the halo-exchange pass is never called, with shared-memory
\* parallelism disabled the parallelization pass is never called, and the
\* statement of a disabled pass leaves the graph and the state as they are.
C18_PipelineOrder ==
    /\ [](/\ \E k \in 0..Len(SelectSeq(PassOrder, Enabled)) :
                trace = SubSeq(SelectSeq(PassOrder, Enabled), 1, k)
          /\ ppc = 8 => trace = SelectSeq(PassOrder, Enabled)
          /\ ~Truthy(tparams.mpi) => \A k \in 1..Len(trace) : trace[k] # "mpiize"
          /\ ~tparams.openmp => \A k \in 1..Len(trace) : trace[k] # "make_parallel")
    /\ [][/\ (ppc = 2 /\ ~Truthy(tparams.mpi)) => UNCHANGED <<graph, trace, tparams, ompvars>>
          /\ (ppc = 4 /\ ~tparams.openmp) => UNCHANGED <<graph, trace, tparams, ompvars>>]_vars

\* the pipeline has returned with both optional passes disabled
C18_Witness ==
    /\ ppc = 8 /\ ~Truthy(tparams.mpi) /\ ~tparams.openmp
    /\ Len(trace) = 5 /\ trace[2] = "make_simd"

(***************************************************************************)
(* OffloadingDataManager: the objects placed in high bandwidth memory.     *)
(* An object is a Function (it carries user-visible state) or an Array (a  *)
(* purely intermediate one) of 1 or 2 dimensions.  The data manager places *)
(* Arrays with _alloc_array_on_high_bw_mem and Functions with              *)
(* _map_function_on_high_bw_mem.                                           *)
(***************************************************************************)
DataObjs ==
    {[name |-> n, is_Array |-> a, ndim |-> 1 + (n % 2)] : n \in 1..MaxObjs, a \in BOOLEAN}

\* OffloadingOmpizer._map_data(f): the extent of each dimension
MapData(f) ==
    IF f.is_Array THEN [d \in 1..f.ndim |-> <<"symbolic_shape", d>>]
    ELSE [d \in 1..f.ndim |-> <<"FULL.size", d>>]

\* the pragmas of lang: 'omp target enter/exit data map(<kind>: <name><sections>)'
MapPragma(when, kind, f) == [when |-> when, kind |-> kind, name |-> f.name, sections |-> MapData(f)]
\* _map_to, _map_alloc, _map_from, _map_delete
MapTo(f) == MapPragma("enter", "to", f)
MapAlloc(f) == MapPragma("enter", "alloc", f)
MapFrom(f) == MapPragma("exit", "from", f)
MapDelete(f) == MapPragma("exit", "delete", f)

InStorage(st, obj) == \E k \in 1..Len(st) : st[k].obj = obj

\* _map_function_on_high_bw_mem releasing the data with map-delete
MapFunctionOnHighBwMem_Delete(obj, st) ==
    IF InStorage(st, obj) THEN st
    ELSE Append(st, [obj |-> obj, decl |-> "no-op", alloc |-> MapTo(obj), free |-> MapDelete(obj)])

\* _alloc_array_on_high_bw_mem(obj, storage)
AllocArrayOnHighBwMem(obj, st) ==
    IF InStorage(st, obj) THEN st
    ELSE Append(st, [obj |-> obj, decl |-> "no-op", alloc |-> MapAlloc(obj), free |-> MapDelete(obj)])

\* _map_function_on_high_bw_mem(obj, storage)
MapFunctionOnHighBwMem(obj, st) ==
    IF InStorage(st, obj) THEN st
    ELSE Append(st, [obj |-> obj, decl |-> "no-op", alloc |-> MapTo(obj), free |-> MapFrom(obj)])

\* the data manager is asked to place obj
Register(obj) ==
    /\ Len(regs) < MaxRegs
    /\ regs' = Append(regs, obj)
    /\ storage' = IF obj.is_Array THEN AllocArrayOnHighBwMem(obj, storage)
                  ELSE MapFunctionOnHighBwMem(obj, storage)

DataInit == storage = <<>> /\ regs = <<>>

NextData == \E obj \in DataObjs : Register(obj) /\ UNCHANGED notData

InitData == DataInit /\ OmpIdle /\ PipeIdle /\ ArrayIdle /\ MpiIdle /\ MakeIdle /\ EfuncsIdle /\ MergeIdle /\ CacheIdle

SpecData == InitData /\ [][NextData]_vars

\* C19: every registered object has exactly one storage entry, whose
\* directives are paired (map-to on entry with map-from on exit for a
\* Function, map-alloc on entry with map-delete on exit for an Array, both
\* naming the object and the same sections); registering an object that has
\* an entry changes nothing.
C19_OnePairedEntry ==
    /\ [](\A k \in 1..Len(regs) :
             LET obj == regs[k]
                 es == {j \in 1..Len(storage) : storage[j].obj = obj}
             IN  /\ Cardinality(es) = 1
                 /\ \A j \in es :
                       /\ storage[j].alloc.when = "enter" /\ storage[j].free.when = "exit"
                       /\ <<storage[j].alloc.kind, storage[j].free.kind>>
                             = (IF obj.is_Array THEN <<"alloc", "delete">> ELSE <<"to", "from">>)
                       /\ storage[j].alloc.name = obj.name /\ storage[j].free.name = obj.name
                       /\ storage[j].alloc.sections = storage[j].free.sections
                       /\ Len(storage[j].alloc.sections) = obj.ndim)
    /\ [][(regs' # regs /\ InStorage(storage, regs'[Len(regs')])) => storage' = storage]_vars

\* a Function and an Array have entries and an object was registered twice
C19_Witness ==
    /\ Len(storage) = 2 /\ Len(regs) = 3
    /\ storage[1].obj.is_Array /\ ~storage[2].obj.is_Array
    /\ regs[3] = regs[1]

(***************************************************************************)
(* types.Array: the memory scope of one Array object, set by __init__ and  *)
(* by update.  A keyword argument is absent (update then sees its default  *)
(* None), True or False.  A failed assertion is fatal: no call follows it. *)
(***************************************************************************)
ArgVals == {"absent", "True", "False"}

\* bool(kwargs.get(key, default))
KwargBool(v, default) == IF v = "absent" THEN default ELSE v = "True"

\* single_or(l): exactly one item of l is true
SingleOr(l) == Cardinality({k \in 1..Len(l) : l[k]}) = 1

\* Array.__init__(external=, onstack=, onheap=) on an object that is not
\* cached (on a cached object __init__ assigns nothing)
ArrayInit(external, onstack, onheap) ==
    /\ apc = "new"
    /\ LET new == [external |-> KwargBool(external, FALSE),
                   onstack |-> KwargBool(onstack, FALSE),
                   onheap |-> KwargBool(onheap, TRUE)]
       IN  /\ arr' = new
           /\ apc' = IF SingleOr(<<new.external, new.onstack, new.onheap>>)
                     THEN "live" ELSE "error"
    /\ alast' = [op |-> "init", external |-> external, onstack |-> onstack, onheap |-> onheap]
    /\ ancalls' = ancalls + 1

\* Array.update assigning only the flags that are given
ArrayUpdate_KeepOthers(external, onstack, onheap) ==
    /\ apc = "live" /\ ancalls < MaxCalls
    /\ LET new == [external |-> KwargBool(external, arr.external),
                   onstack |-> KwargBool(onstack, arr.onstack),
                   onheap |-> KwargBool(onheap, arr.onheap)]
       IN  /\ arr' = new
           /\ apc' = IF \E k \in 1..3 : <<new.external, new.onstack, new.onheap>>[k]
                     THEN "live" ELSE "error"
    /\ alast' = [op |-> "update", external |-> external, onstack |-> onstack, onheap |-> onheap]
    /\ ancalls' = ancalls + 1

\* Array.update(onstack=, onheap=, external=)
ArrayUpdate(external, onstack, onheap) ==
    /\ apc = "live" /\ ancalls < MaxCalls
    /\ IF \E v \in {external, onstack, onheap} : v # "absent"
       THEN LET new == [external |-> KwargBool(external, FALSE),
                        onstack |-> KwargBool(onstack, FALSE),
                        onheap |-> KwargBool(onheap, FALSE)]
            IN  /\ arr' = new
                /\ apc' = IF SingleOr(<<new.external, new.onstack, new.onheap>>)
                          THEN "live" ELSE "error"
       ELSE UNCHANGED <<arr, apc>>
    /\ alast' = [op |-> "update", external |-> external, onstack |-> onstack, onheap |-> onheap]
    /\ ancalls' = ancalls + 1

ArrayStart == arr = NoFlags /\ apc = "new" /\ alast = NoCallYet /\ ancalls = 0

NextArray ==
    \/ \E e \in ArgVals : \E s \in ArgVals : \E h \in ArgVals :
          ArrayInit(e, s, h) /\ UNCHANGED notArray
    \/ \E e \in ArgVals : \E s \in ArgVals : \E h \in ArgVals :
          ArrayUpdate(e, s, h) /\ UNCHANGED notArray

InitArray == ArrayStart /\ OmpIdle /\ PipeIdle /\ DataIdle /\ MpiIdle /\ MakeIdle /\ EfuncsIdle /\ MergeIdle /\ CacheIdle

SpecArray == InitArray /\ [][NextArray]_vars

\* C20: after every Array constructor call and every Array.update call that
\* completes without error, exactly one of the flags external, onstack,
\* onheap is set, whatever arguments were given or left at their defaults.
C20_ExactlyOneScope ==
    apc = "live" =>
        Cardinality({f \in {"external", "onstack", "onheap"} : arr[f]}) = 1

\* update(onstack=True), the other arguments at their defaults, has
\* completed on an Array constructed with the default scope
C20_Witness ==
    /\ apc = "live" /\ ancalls = 2
    /\ alast = [op |-> "update", external |-> "absent", onstack |-> "True", onheap |-> "absent"]
    /\ arr.onstack

(***************************************************************************)
(* The state of the rewrite pipeline.  BasicRewriter._pipeline runs        *)
(* _avoid_denormals, then _create_efuncs; each pass returns an increment   *)
(* that is merged into the accumulated state.  The merge is not part of    *)
(* basic.py: it is modelled from the merge rule of the pipeline framework  *)
(* (headers: set union; generated Callables: insert if absent, assert      *)
(* structural equality if present).  Increments are merged in any order    *)
(* and any number of times.                                                *)
(***************************************************************************)
MergeNodes == 3     \* Iterations of the tree whose increments are merged: 1..MergeNodes
MaxMerges == 3      \* merges into one pipeline state: 0..MaxMerges

\* _avoid_denormals: {'includes': ('xmmintrin.h', 'pmmintrin.h')}
DenormalsIncrement == [includes |-> {"xmmintrin.h", "pmmintrin.h"}, efuncs |-> <<>>]

RECURSIVE SetToSeq(_)
SetToSeq(S) ==
    IF S = {} THEN <<>>
    ELSE LET m == CHOOSE x \in S : TRUE
         IN  <<m>> \o SetToSeq(S \ {m})

\* EfuncsIncrement with every Callable the pass constructed, not only the
\* values of the registry
EfuncsIncrement_AllBuilt ==
    [includes |-> {}, efuncs |-> efuncs \o SetToSeq(requested \ SeqRange(efuncs))]

\* _create_efuncs: {'efuncs': functions.values()}
EfuncsIncrement == [includes |-> {}, efuncs |-> efuncs]

Increment(pass) == IF pass = "denormals" THEN DenormalsIncrement ELSE EfuncsIncrement

HasName(reg, name) == \E j \in 1..Len(reg) : reg[j].name = name

\* the Callables cs inserted one by one, each only if its name is absent
RECURSIVE InsertAll(_, _)
InsertAll(reg, cs) ==
    IF cs = <<>> THEN reg
    ELSE InsertAll(IF HasName(reg, Head(cs).name) THEN reg ELSE Append(reg, Head(cs)),
                   Tail(cs))

\* a Callable of the increment meets a different Callable of its name
MergeFails(st, inc) ==
    \E k \in 1..Len(inc.efuncs) :
        LET reg == InsertAll(st.efuncs, SubSeq(inc.efuncs, 1, k - 1))
        IN  \E j \in 1..Len(reg) :
                reg[j].name = inc.efuncs[k].name /\ reg[j] # inc.efuncs[k]

MergeState(st, inc) ==
    [includes |-> st.includes \cup inc.includes,
     efuncs |-> InsertAll(st.efuncs, inc.efuncs)]

Merge(pass, inc) ==
    /\ mgpc = "run" /\ Len(mlog) < MaxMerges
    /\ IF MergeFails(pstate, inc)
       THEN mgpc' = "error" /\ UNCHANGED pstate
       ELSE pstate' = MergeState(pstate, inc) /\ UNCHANGED mgpc
    /\ mlog' = Append(mlog, pass)

\* the increment of _avoid_denormals is merged: before _create_efuncs runs,
\* as in _pipeline, or after it has returned
MergeDenormals ==
    /\ epc = "done" \/ (epc = "loop" /\ ci = 1)
    /\ Merge("denormals", DenormalsIncrement)

\* the increment of _create_efuncs is merged, once the pass has returned
MergeEfuncs ==
    /\ epc = "done"
    /\ Merge("efuncs", EfuncsIncrement)

\* the pipeline starts with an empty state on a tree whose Iterations have
\* the default bounds
MergeInit ==
    /\ EfuncsStart(MergeNodes)
    /\ \A i \in 1..nodes.n : nodes.it[i].off = 0
    /\ pstate = NoState /\ mlog = <<>> /\ mgpc = "run"

NextMerge ==
    \/ CreateEfunc /\ UNCHANGED notEfuncs
    \/ TransformTree /\ UNCHANGED notEfuncs
    \/ MergeDenormals /\ UNCHANGED notMerge
    \/ MergeEfuncs /\ UNCHANGED notMerge

InitMerge == MergeInit /\ MpiIdle /\ MakeIdle /\ TargetIdle /\ CacheIdle

SpecMerge == InitMerge /\ [][NextMerge]_vars

\* C21: merging pass increments into the pipeline state is idempotent and
\* insensitive to the order of the denormals pass and the outlining pass:
\* whatever the order and the number of merges, no merge fails, the headers
\* of the state are exactly those of the increments merged, the registry
\* holds exactly the Callables of the increments merged, and each name once.
C21_MergeOrderIdempotent ==
    /\ mgpc # "error"
    /\ mgpc = "run" =>
          /\ pstate.includes = UNION {Increment(p).includes : p \in SeqRange(mlog)}
          /\ SeqRange(pstate.efuncs) = UNION {SeqRange(Increment(p).efuncs) : p \in SeqRange(mlog)}
          /\ \A j \in 1..Len(pstate.efuncs) : \A k \in 1..Len(pstate.efuncs) :
                pstate.efuncs[j].name = pstate.efuncs[k].name => j = k

\* the increment of an outlining pass that returned two Callables was merged,
\* then that of the denormals pass, then the first one again
C21_Witness ==
    /\ mgpc = "run" /\ mlog = <<"efuncs", "denormals", "efuncs">>
    /\ Len(pstate.efuncs) = 2 /\ pstate.includes # {}
\* the Iterations of chain k that carry a tag and are elementizable,
\* outermost first
TaggedEligible(k) ==
    SelectSeq(IterationTrees(nodes)[k],
              LAMBDA i : nodes.it[i].tag # 0 /\ nodes.it[i].elem)

\* C22: for each chain the outlining root is the outermost Iteration that
\* both carries a tag and is elementizable, and a chain is skipped only when
\* it has no such Iteration: after the pass the mapper holds a Call for that
\* Iteration of every chain that has one, and for no Iteration of a chain
\* that has none.
C22_Orig_OutermostEligibleRoot ==
    epc = "done" =>
        \A k \in 1..Len(IterationTrees(nodes)) :
            IF TaggedEligible(k) # <<>>
            THEN mapper[TaggedEligible(k)[1]] # NoCall
            ELSE \A i \in SeqRange(IterationTrees(nodes)[k]) : mapper[i] = NoCall
\* the outlined roots that several chains of retrieve_iteration_tree share
SharedRoots ==
    {r \in OutlinedRoots :
        Cardinality({k \in OutlinedChains : RootOf(k) = r}) >= 2}

\* C23: when several chains share one tagged root, the final rewrite puts
\* exactly one Call at the root, no Iteration of the root's nest remains
\* inline, and the registered Callable of the called name has free bounds for
\* the Iterations of every branch, for which the Call passes the symbolic
\* bounds of an Iteration of that dimension.
C23_Orig_SharedRootComposes ==
    epc = "done" =>
        \A r \in SharedRoots :
            /\ processed[r].kind = "call"
            /\ \A i \in Subtree(nodes.par, r) \ {r} : processed[i].kind = "absent"
            /\ \E f \in Registered(processed[r].call.name) :
                  LET c == processed[r].call
                  IN  /\ \A k \in 1..Len(f.body) : f.body[k].free
                      /\ Len(c.args) = Len(f.params)
                      /\ \A k \in 1..Len(f.params) :
                            IsFresh(f.params[k]) =>
                                \E i \in Subtree(nodes.par, r) :
                                    /\ Depth(nodes.par, i) = f.params[k][2]
                                    /\ c.args[k] = (IF f.params[k][1] = "fm"
                                                    THEN SymbolicBounds(nodes, i).min
                                                    ELSE SymbolicBounds(nodes, i).max)
(***************************************************************************)
(* The halo exchange of an array with one or two dimensions on a grid of   *)
(* processes: all messages carry the one tag, so only the order of the     *)
(* messages between two processes tells them apart.                        *)
(***************************************************************************)
MaxGrid == 2        \* processes of the grid: 1..MaxGrid

\* the processes are arranged along dimension 1; an array with a second
\* dimension has one process along it (its own neighbor when periodic)
Grids == [n : 1..MaxGrid, periodic : BOOLEAN, ny : {0, 1}]

InitGrid == MpiStart(Grids) /\ MakeIdle /\ EfuncsIdle /\ TargetIdle /\ MergeIdle /\ CacheIdle

SpecGrid == InitGrid /\ [][NextMpi]_vars

\* C24: after all processes have returned from haloupdate, the halo region
\* of each process on side s of dimension d holds the data of the owned
\* region, facing it, of its neighbor on that side, when the exchange towards
\* the opposite side is in the mask and there is such a neighbor, and what it
\* held before otherwise: never the data of another dimension or of the
\* exchange in the other direction.
C24_HaloHoldsNeighborData ==
    AllReturned =>
        \A p \in Procs : \A i \in 1..Len(RunDims) : \A j \in 1..Len(Sides) :
            LET d == RunDims[i]
                s == Sides[j]
                nb == Neighbor(p, d, s)
            IN  halo[p][<<d, s>>] =
                    IF <<d, Opposite(s)>> \in rmask /\ nb # ProcNull
                    THEN OwnedData(nb, d, Opposite(s))
                    ELSE HaloInit(d, s)

\* on the periodic grid of 2 by 1 processes, with all four flags set, every
\* process has returned: along dimension 1 the left and the right neighbor
\* of a process are the same rank, along dimension 2 it is its own neighbor
C24_Witness ==
    /\ topo = [n |-> 2, periodic |-> TRUE, ny |-> 1]
    /\ Cardinality(rmask) = 4
    /\ AllReturned
    /\ halo[0][<<1, LEFT>>] = OwnedData(1, 1, RIGHT)
    /\ halo[0][<<1, RIGHT>>] = OwnedData(1, 1, LEFT)
    /\ halo[0][<<2, LEFT>>] = OwnedData(0, 2, RIGHT)
(***************************************************************************)
(* The symbol cache (devito/types.py).  Creating a symbol makes a class    *)
(* (Cached._symbol_type), an object of it, the original, and the entry     *)
(* _SymbolCache[class] = weakref.ref(original).  Re-instantiating the      *)
(* class makes an object whose __dict__ is the __dict__ of the original.   *)
(* The program holds references to objects and drops them; an object no    *)
(* reference leads to is collected at some later moment.                   *)
(***************************************************************************)
\* kind: "symbol" (AbstractCachedSymbol) or "function" (AbstractCachedFunction);
\* cached: the class is a key of _SymbolCache; live: the original is not
\* collected; held: the program holds a reference to the original; state:
\* the __dict__ of the original; copies: the re-instantiated objects the
\* program holds; got: the state of the last re-instantiated object
NoSym ==
    [kind |-> "none", cached |-> FALSE, live |-> FALSE, held |-> FALSE,
     state |-> <<>>, copies |-> 0, got |-> <<>>]

\* dtype and shape/dimensions given to __init__
SymStates(kind) ==
    IF kind = "symbol" THEN {<<"int32">>, <<"float32">>}
    ELSE {<<"float32", "x">>, <<"float32", "x", "y">>}

\* __new__ with cls not in _SymbolCache: newcls = cls._symbol_type(name),
\* newobj.__init__(*args, **kwargs), newcls._cache_put(newobj)
NewSymbol(c, kind, st) ==
    /\ spc = "run" /\ sym[c] = NoSym
    /\ \A b \in 1..(c - 1) : sym[b] # NoSym
    /\ sym' = [sym EXCEPT ![c] =
                 [kind |-> kind, cached |-> TRUE, live |-> TRUE, held |-> TRUE,
                  state |-> st, copies |-> 0, got |-> <<>>]]
    /\ UNCHANGED spc

\* some object leads to the original: the function field of the __dict__
\* an AbstractCachedFunction shares with its re-instantiated objects
\* (newobj.function = newobj); a symbol has no such field
Referenced(s) == s.held \/ (s.kind = "function" /\ s.copies > 0)

\* __new__ with cls in _SymbolCache, called through an object the program
\* holds: newobj._cached_init(), that is
\* self.__dict__ = _SymbolCache[self.__class__]().__dict__
\* A dead weak reference returns None, and None has no __dict__.
Reinstantiate(c) ==
    /\ spc = "run" /\ sym[c].cached
    /\ sym[c].held \/ sym[c].copies > 0
    /\ sym[c].copies < MaxCopies
    /\ IF sym[c].live
       THEN /\ sym' = [sym EXCEPT ![c].copies = @ + 1, ![c].got = sym[c].state]
            /\ UNCHANGED spc
       ELSE /\ spc' = "error"
            /\ UNCHANGED sym

\* the program drops its reference to the original
DropOriginal(c) ==
    /\ spc = "run" /\ sym[c].held
    /\ sym' = [sym EXCEPT ![c].held = FALSE]
    /\ UNCHANGED spc

\* the program drops its reference to a re-instantiated object
DropCopy(c) ==
    /\ spc = "run" /\ sym[c].copies > 0
    /\ sym' = [sym EXCEPT ![c].copies = @ - 1]
    /\ UNCHANGED spc

\* an original nothing leads to is collected (the weak reference of the
\* cache does not keep it)
Collect(c) ==
    /\ spc = "run" /\ sym[c].live /\ ~Referenced(sym[c])
    /\ sym' = [sym EXCEPT ![c].live = FALSE]
    /\ UNCHANGED spc

\* CacheManager.clear: sympy.cache.clear_cache(); gc.collect(); then every
\* entry whose weak reference is dead is deleted
CacheClear ==
    /\ spc = "run"
    /\ sym' = [c \in DOMAIN sym |->
                 IF sym[c] = NoSym THEN NoSym
                 ELSE LET live == sym[c].live /\ Referenced(sym[c])
                      IN  [sym[c] EXCEPT !.live = live, !.cached = @ /\ live]]
    /\ UNCHANGED spc

CacheInit == sym = [c \in 1..MaxSyms |-> NoSym] /\ spc = "run"

NextCache ==
    \/ \E c \in DOMAIN sym : \E kind \in {"symbol", "function"} : \E st \in SymStates(kind) :
          NewSymbol(c, kind, st) /\ UNCHANGED notCache
    \/ \E c \in DOMAIN sym : Reinstantiate(c) /\ UNCHANGED notCache
    \/ \E c \in DOMAIN sym : DropOriginal(c) /\ UNCHANGED notCache
    \/ \E c \in DOMAIN sym : DropCopy(c) /\ UNCHANGED notCache
    \/ \E c \in DOMAIN sym : Collect(c) /\ UNCHANGED notCache
    \/ CacheClear /\ UNCHANGED notCache

InitCache == CacheInit /\ MpiIdle /\ MakeIdle /\ EfuncsIdle /\ TargetIdle /\ MergeIdle

SpecCache == InitCache /\ [][NextCache]_vars

\* C25: re-instantiating a class that has an entry in the symbol cache never
\* fails and yields an object with the state of the original, whatever the
\* order of creations, re-instantiations, dropped references and clears.
C25_Orig_ReinstantiationNeverFails ==
    /\ spc # "error"
    /\ \A c \in DOMAIN sym : sym[c].got # <<>> => sym[c].got = sym[c].state
\* the name of a Callable as text: 'gather%dd' % f.ndim, 'scatter%dd' % f.ndim,
\* 'sendrecv%dd' % f.ndim, 'haloupdate%dd%s' % (f.ndim, uniquekey)
NameText(name) ==
    name[1] \o ToString(name[2]) \o "d"
    \o (IF name[1] = "haloupdate" THEN ToString(name[3]) ELSE "")

\* C26: the Callables one make call returns have pairwise distinct names:
\* the haloupdate Callables of distinct keys, also of different ranks, and
\* the gather, scatter and sendrecv Callables of each rank.
C26_DistinctNames ==
    mkpc = "done" =>
        \A i \in 1..Len(mkresult) : \A j \in 1..Len(mkresult) :
            NameText(mkresult[i].name) = NameText(mkresult[j].name) => i = j

\* make has returned the routines of two ranks with one haloupdate each, or
\* of one rank with two haloupdates of the same mask
C26_Witness ==
    /\ mkpc = "done" /\ Len(spots) = 2
    /\ \/ Len(mkresult) = 8
       \/ /\ Len(mkresult) = 5
          /\ spots[1].mask = spots[2].mask /\ spots[1].loc # spots[2].loc
\* the scope arguments of a call: some is given, and they do not select
\* exactly one of external, onstack, onheap
ScopeGiven(call) == \E f \in {"external", "onstack", "onheap"} : call[f] # "absent"
SelectsOne(call) == Cardinality({f \in {"external", "onstack", "onheap"} : call[f] = "True"}) = 1

\* C27: an Array.update call whose scope arguments do not select exactly one
\* of external, onstack, onheap fails its assertion and leaves the flags the
\* Array had before the call, so that the Array still has exactly one scope.
C27_Orig_FailedUpdateKeepsScope ==
    [][(apc = "live" /\ ancalls' = ancalls + 1 /\ alast'.op = "update"
          /\ ScopeGiven(alast') /\ ~SelectsOne(alast'))
       => (/\ apc' = "error"
           /\ arr' = arr
           /\ Cardinality({f \in {"external", "onstack", "onheap"} : arr'[f]}) = 1)]_vars

====
